---- MODULE Spec2Model ----
(***************************************************************************)
(* A model of the game engines of the lain Discord bot (src/bot.py): the   *)
(* kana utilities, the word-chain (shiritori) game with its three modes,   *)
(* and the two-kanji compound puzzles (Waaduru, Daily Waaduru, Kanji       *)
(* Puzzle) with their registries.                                          *)
(*                                                                         *)
(* Characters are Unicode code points, strings are sequences of code       *)
(* points.  Every event handler is an asyncio task: the code between two   *)
(* awaits is one atomic action, and a task suspended on an await is a      *)
(* record of its local variables in `tasks`.  Game objects live in heaps  *)
(* (`games`, `waaduru_games`, ...) so that a suspended task may still hold *)
(* a reference to an object that has left its registry.                    *)
(***************************************************************************)
EXTENDS Integers, Sequences, FiniteSets, TLC

VARIABLES
    active_games,                \* bot.py:522   channel -> ShiritoriGame
    games,                       \* the ShiritoriGame objects
    active_waaduru_games,        \* bot.py:1620  channel -> WaaduruGame
    waaduru_games,               \* the WaaduruGame objects
    active_daily_waaduru_games,  \* bot.py:1623  user -> DailyWaaduruGame
    daily_games,                 \* the DailyWaaduruGame objects
    active_kanjipuzzle_games,    \* bot.py:2313  channel -> KanjiPuzzleGame
    kanjipuzzle_games,           \* the KanjiPuzzleGame objects
    daily_waaduru_word,          \* bot.py:1626  the cached word of the day
    today,                       \* the date in Japan, as a day number
    tasks                        \* running handlers, suspended at an await

chainVars == <<active_games, games>>
waaduruVars == <<active_waaduru_games, waaduru_games>>
dailyVars == <<active_daily_waaduru_games, daily_games, daily_waaduru_word, today>>
kanjipuzzleVars == <<active_kanjipuzzle_games, kanjipuzzle_games>>
puzzleVars == <<waaduruVars, dailyVars, kanjipuzzleVars>>
vars == <<chainVars, puzzleVars, tasks>>

(***************************************************************************)
(* Bounds of the model.                                                    *)
(***************************************************************************)
\* random.choice(COMMON_KANA) draws among the first MaxKana entries of the list
MaxKana == 3
\* users stop typing words in a channel whose chain has reached this length
MaxChain == 2
\* the days the model runs over
MaxDay == 2

Channels == {"c1", "c2"}
\* the channel the games are played in when one channel is looked at
OneChannel == {"c1"}
Users == {"u1", "u2"}
\* the handlers that may be suspended at the same time
Tasks == {1, 2}
\* one handler at a time
OneTask == {1}
OneUser == {"u1"}
\* an object per registry key and one more per handler that still holds a reference
GameIds == 1 .. (Cardinality(Users) + Cardinality(Tasks))

NoRef == 0                       \* no object: a registry without the key, a local not bound
NoUser == "none"
NoneStr == <<0>>                 \* Python's None where a string is expected

(***************************************************************************)
(* Kana utilities (bot.py:229-303).                                        *)
(***************************************************************************)
IsHiragana(code) == \h3040 <= code /\ code <= \h309F
IsKatakana(code) == \h30A0 <= code /\ code <= \h30FF
IsKanji(code) == \h4E00 <= code /\ code <= \h9FFF
IsKana(code) == IsHiragana(code) \/ IsKatakana(code)

ChouOn == \h30FC                 \* the elongation mark
HiraN == \h3093                  \* the terminal kana

\* a conversion that moves every kana down by 0x60, hiragana included
normalize_kana_shifts_hiragana(text) ==
    [i \in 1 .. Len(text) |-> IF IsKana(text[i]) THEN text[i] - \h60 ELSE text[i]]

\* normalize_kana: katakana -> hiragana, code point by code point
normalize_kana(text) ==
    [i \in 1 .. Len(text) |-> IF IsKatakana(text[i]) THEN text[i] - \h60 ELSE text[i]]

\* the small_to_full table of normalize_small_kana
small_to_full ==
    ( \h3083 :> \h3084 ) @@ ( \h3085 :> \h3086 ) @@ ( \h3087 :> \h3088 ) @@
    ( \h3041 :> \h3042 ) @@ ( \h3043 :> \h3044 ) @@ ( \h3045 :> \h3046 ) @@
    ( \h3047 :> \h3048 ) @@ ( \h3049 :> \h304A ) @@
    ( \h308E :> \h308F ) @@ ( \h3063 :> \h3064 ) @@
    ( \h30E3 :> \h30E4 ) @@ ( \h30E5 :> \h30E6 ) @@ ( \h30E7 :> \h30E8 ) @@
    ( \h30A1 :> \h30A2 ) @@ ( \h30A3 :> \h30A4 ) @@ ( \h30A5 :> \h30A6 ) @@
    ( \h30A7 :> \h30A8 ) @@ ( \h30A9 :> \h30AA ) @@
    ( \h30EE :> \h30EF ) @@ ( \h30C3 :> \h30C4 ) @@ ( \h30F5 :> \h30AB ) @@
    ( \h30F6 :> \h30B1 )

\* normalize_small_kana: dict.get(char, char); only a one-character string can be a key
normalize_small_kana(char) ==
    IF Len(char) = 1 /\ char[1] \in DOMAIN small_to_full
    THEN <<small_to_full[char[1]]>>
    ELSE char

RECURSIVE FirstKanaFrom(_, _)
FirstKanaFrom(text, i) ==
    IF i > Len(text) THEN <<>>
    ELSE IF IsKana(text[i]) THEN <<text[i]>>
    ELSE FirstKanaFrom(text, i + 1)

\* get_first_kana: the first hiragana or katakana character, raw
get_first_kana(text) == FirstKanaFrom(text, 1)

\* the last character of the two kana blocks, the elongation mark included
get_last_kana_with_mark(text) ==
    LET at == { i \in 1 .. Len(text) : IsKana(text[i]) }
    IN  IF at = {} THEN <<>>
        ELSE <<text[CHOOSE i \in at : \A j \in at : j <= i]>>

RECURSIVE LastKanaFrom(_, _)
LastKanaFrom(text, i) ==
    IF i < 1 THEN <<>>
    ELSE IF IsKana(text[i]) /\ text[i] # ChouOn THEN <<text[i]>>
    ELSE LastKanaFrom(text, i - 1)

\* get_last_kana: the last kana other than the elongation mark, raw
get_last_kana(text) == LastKanaFrom(text, Len(text))

\* normalize_for_comparison: "" for a falsy argument, else katakana->hiragana, small->full
normalize_for_comparison(kana) ==
    IF kana = NoneStr \/ kana = <<>> THEN <<>>
    ELSE normalize_small_kana(normalize_kana(kana))

\* COMMON_KANA (bot.py:310-314), in the order of the list
COMMON_KANA ==
    << \h3042, \h3044, \h3046, \h3048, \h304A, \h304B, \h304D, \h304F, \h3051, \h3053,
       \h3055, \h3057, \h3059, \h305B, \h305D, \h305F, \h3061, \h3064, \h3066, \h3068,
       \h306A, \h306B, \h306C, \h306D, \h306E, \h306F, \h3072, \h3075, \h3078, \h307B,
       \h307E, \h307F, \h3080, \h3081, \h3082, \h3084, \h3086, \h3088,
       \h3089, \h308A, \h308B, \h308C, \h308D, \h308F >>

\* a list of kana to draw from that has ん in it
KanaChoices_with_n == { <<COMMON_KANA[i]>> : i \in 1 .. MaxKana } \cup { <<HiraN>> }

\* the outcomes of random.choice(COMMON_KANA) the model draws
KanaChoices == { <<COMMON_KANA[i]>> : i \in 1 .. MaxKana }

(***************************************************************************)
(* The dictionary service (jisho.org), as the handlers see it: the 'data'  *)
(* list of a response.  An entry has its 'japanese' list of word/reading   *)
(* pairs; `noun` is what is_noun(senses) returns for the entry.  A form    *)
(* written in kana only has no 'word' key, which the code reads as ''.     *)
(***************************************************************************)
W_ai == << \h611B >>                       \* 愛
R_ai == << \h3042, \h3044 >>               \* あい
W_ie == << \h5BB6 >>                       \* 家
R_ie == << \h3044, \h3048 >>               \* いえ
R_uchi == << \h3046, \h3061 >>             \* うち
R_ea == << \h30A8, \h30A2 >>               \* エア
\* インターネットカフェ
R_netcafe == << \h30A4, \h30F3, \h30BF, \h30FC, \h30CD, \h30C3, \h30C8, \h30AB, \h30D5, \h30A7 >>
W_an == << \h6848 >>                       \* 案
R_an == << \h3042, \h3093 >>               \* あん
W_au == << \h4F1A, \h3046 >>               \* 会う
R_au == << \h3042, \h3046 >>               \* あう
W_latin == << 97 >>                        \* a
K_hi == \h65E5                             \* 日
K_hon == \h672C                            \* 本
K_ki == \h6728                             \* 木
K_tsuki == \h6708                          \* 月
K_mei == \h660E                            \* 明, left out of the excerpt of KRAD_MAP below
W_nihon == << K_hi, K_hon >>               \* 日本
R_nihon == << \h306B, \h307B, \h3093 >>    \* にほん
W_honjitsu == << K_hon, K_hi >>            \* 本日, not in the excerpt below
W_mokuhon == << K_ki, K_hon >>             \* 木本
R_mokuhon == << \h3082, \h304F, \h307B, \h3093 >>   \* もくほん

W_uta == << \h6B4C >>                       \* 歌
R_uta == << \h3046, \h305F >>               \* うた

JISHO ==
    << [japanese |-> << [word |-> W_au, reading |-> R_au] >>, noun |-> FALSE],
       [japanese |-> << [word |-> W_ai, reading |-> R_ai] >>, noun |-> TRUE],
       [japanese |-> << [word |-> W_ie, reading |-> R_ie] >>, noun |-> TRUE],
       [japanese |-> << [word |-> W_ie, reading |-> R_uchi] >>, noun |-> TRUE],
       [japanese |-> << [word |-> W_uta, reading |-> R_uta] >>, noun |-> TRUE],
       [japanese |-> << [word |-> <<>>, reading |-> R_ea] >>, noun |-> TRUE],
       [japanese |-> << [word |-> <<>>, reading |-> R_netcafe] >>, noun |-> TRUE],
       [japanese |-> << [word |-> W_an, reading |-> R_an] >>, noun |-> TRUE],
       [japanese |-> << [word |-> W_nihon, reading |-> R_nihon] >>, noun |-> TRUE],
       [japanese |-> << [word |-> W_mokuhon, reading |-> R_mokuhon] >>, noun |-> TRUE] >>

\* what a user may type in a channel with a chain game
Messages == {W_ai, R_ai, W_ie, R_ea, R_netcafe, W_an, W_au, W_latin}
\* what a user may type in a channel with a compound puzzle
Guesses == {W_nihon, W_mokuhon, W_honjitsu}

\* KRAD_MAP (bot.py:225), the lines of kradfile-u for the kanji above
KRAD_MAP ==
    ( K_hi :> {\h65E5} ) @@ ( K_hon :> {\h4E00, \h6728} ) @@
    ( K_ki :> {\h6728} ) @@ ( K_tsuki :> {\h6708} )

\* KRAD_MAP.get(kanji, set())
krad_get(kanji) == IF kanji \in DOMAIN KRAD_MAP THEN KRAD_MAP[kanji] ELSE {}

\* the kanji of the common_kanji lists (bot.py:1718, 1911) the dictionary has words for,
\* and one it has none for
common_kanji == << K_hi, K_tsuki, K_ki >>

\* the service's answer to the wildcard search "<start_kanji>*"
jisho_search(start_kanji) ==
    LET Starts(e) == \E i \in 1 .. Len(e.japanese) :
            e.japanese[i].word # <<>> /\ e.japanese[i].word[1] = start_kanji
    IN  SelectSeq(JISHO, Starts)

RECURSIVE Flatten(_)
\* the (entry, jp) pairs of a response in the order the nested loops visit them
Flatten(data) ==
    IF data = <<>> THEN <<>>
    ELSE [i \in 1 .. Len(Head(data).japanese) |->
             [word |-> Head(data).japanese[i].word,
              reading |-> Head(data).japanese[i].reading,
              noun |-> Head(data).noun]]
         \o Flatten(Tail(data))

NotFound == [valid |-> FALSE, reading |-> NoneStr]

\* LookupIn that takes the first noun reading whatever kana it starts with
LookupIn_any_kana(data, word, required) ==
    LET Hit(jp) == jp.noun /\ (jp.word = word \/ jp.reading = word)
        hits == SelectSeq(Flatten(data), Hit)
    IN  IF hits = <<>> THEN NotFound
        ELSE [valid |-> TRUE,
              reading |-> IF hits[1].reading # <<>> THEN hits[1].reading ELSE word]

\* lookup_word (bot.py:543-602) on a response `data`; required = NoneStr for "not given"
LookupIn(data, word, required) ==
    LET normalized_required == normalize_for_comparison(required)
        Hit(jp) ==
            /\ jp.noun
            /\ jp.word = word \/ jp.reading = word
            /\ LET reading == IF jp.reading # <<>> THEN jp.reading ELSE word
               IN  normalized_required # <<>> =>
                       normalize_for_comparison(get_first_kana(reading)) = normalized_required
        hits == SelectSeq(Flatten(data), Hit)
    IN  IF hits = <<>> THEN NotFound
        ELSE [valid |-> TRUE,
              reading |-> IF hits[1].reading # <<>> THEN hits[1].reading ELSE word]

\* a lookup that answers from the dictionary whether or not the request succeeds
lookup_word_always_answers(ok, word, required) == LookupIn(JISHO, word, required)

\* lookup_word: a response that is missing, not 200 or without data yields (False, None, None)
lookup_word(ok, word, required) ==
    IF ok THEN LookupIn(JISHO, word, required) ELSE NotFound

NoWord == [word |-> NoneStr, reading |-> NoneStr]

\* BotCandidates without the test of the first kana
BotCandidates_any_kana(data, start_kana, used_words) ==
    LET Ok(jp) ==
            /\ jp.noun
            /\ jp.reading # <<>>
            /\ normalize_for_comparison(get_last_kana(jp.reading)) # <<HiraN>>
            /\ jp.word \notin used_words /\ jp.reading \notin used_words
        sel == SelectSeq(Flatten(data), Ok)
    IN  [i \in 1 .. Len(sel) |->
            [word |-> IF sel[i].word # <<>> THEN sel[i].word ELSE sel[i].reading,
             reading |-> sel[i].reading]]

\* the candidates list of find_bot_word (bot.py:619-661)
BotCandidates(data, start_kana, used_words) ==
    LET normalized_start == normalize_for_comparison(start_kana)
        Ok(jp) ==
            /\ jp.noun
            /\ jp.reading # <<>>
            /\ normalize_for_comparison(get_first_kana(jp.reading)) = normalized_start
            /\ normalize_for_comparison(get_last_kana(jp.reading)) # <<HiraN>>
            /\ jp.word \notin used_words /\ jp.reading \notin used_words
        sel == SelectSeq(Flatten(data), Ok)
    IN  [i \in 1 .. Len(sel) |->
            [word |-> IF sel[i].word # <<>> THEN sel[i].word ELSE sel[i].reading,
             reading |-> sel[i].reading]]

\* the whole list of candidates
FirstTen_unsliced(s) == s

\* candidates[:10]
FirstTen(s) == IF Len(s) <= 10 THEN s ELSE SubSeq(s, 1, 10)

\* find_bot_word (bot.py:605-668): the words random.choice may return, or none
find_bot_word(ok, start_kana, used_words) ==
    LET c == IF ok THEN FirstTen(BotCandidates(JISHO, start_kana, used_words)) ELSE <<>>
    IN  IF c = <<>> THEN {NoWord} ELSE {c[i] : i \in 1 .. Len(c)}

(***************************************************************************)
(* The chain game (bot.py:484-525).                                        *)
(***************************************************************************)
VS_BOT == "vs_bot"
MULTIPLAYER == "multiplayer"
WORD_BASKET == "word_basket"
GameModes == {VS_BOT, MULTIPLAYER, WORD_BASKET}

\* _get_different_kana that draws from all the kana
_get_different_kana_any(exclude) == KanaChoices

\* ShiritoriGame._get_different_kana: the outcomes of random.choice over the others
_get_different_kana(exclude) == { k \in KanaChoices : k # exclude }

\* ShiritoriGame.__init__, with the two random draws given (last_player, which is
\* written and never read, is left out)
ShiritoriGame(channel_id, mode, kana, other) ==
    [channel_id |-> channel_id,
     mode |-> mode,
     used_words |-> {},
     current_kana |-> kana,
     end_kana |-> IF mode = WORD_BASKET THEN other ELSE NoneStr,
     chain_count |-> 0,
     last_word |-> NoneStr,
     last_reading |-> NoneStr,
     scores |-> << >>]

\* a variant that gives the point to every player of the table and to the submitter
add_score_everyone(scores, player_id) ==
    [p \in DOMAIN scores \cup {player_id} |->
        (IF p \in DOMAIN scores THEN scores[p] ELSE 0) + 1]

\* ShiritoriGame.add_score: scores[player_id] = scores.get(player_id, 0) + 1
add_score(scores, player_id) ==
    [p \in DOMAIN scores \cup {player_id} |->
        IF p = player_id
        THEN (IF p \in DOMAIN scores THEN scores[p] ELSE 0) + 1
        ELSE scores[p]]

(***************************************************************************)
(* The compound puzzles (bot.py:1527-1700, 2267-2305).  The answer's       *)
(* reading and meaning, which are only displayed, are left out.            *)
(***************************************************************************)
GREEN == "green"
YELLOW == "yellow"
ORANGE == "orange"
GRAY == "gray"

max_guesses == 5

\* the candidates list of get_random_jukugo and get_daily_waaduru_word: per entry the
\* first two-character form whose characters are both in KRAD_MAP
JukugoCandidates(data) ==
    LET Fits(jp) ==
            /\ Len(jp.word) = 2
            /\ jp.word[1] \in DOMAIN KRAD_MAP /\ jp.word[2] \in DOMAIN KRAD_MAP
        Good(e) == e.japanese # <<>> /\ e.noun /\ SelectSeq(e.japanese, Fits) # <<>>
        sel == SelectSeq(data, Good)
    IN  [i \in 1 .. Len(sel) |-> SelectSeq(sel[i].japanese, Fits)[1].word]

\* get_random_jukugo (bot.py:1908-1969): a candidate of some try, or None after ten
\* tries without one
get_random_jukugo ==
    {NoneStr} \cup
    UNION { { JukugoCandidates(jisho_search(common_kanji[k]))[i] :
                i \in 1 .. Len(JukugoCandidates(jisho_search(common_kanji[k]))) } :
            k \in 1 .. Len(common_kanji) }

\* WaaduruGame.__init__
WaaduruGame(channel_id, answer_word) ==
    [channel_id |-> channel_id,
     answer_word |-> answer_word,
     guesses |-> << >>,
     solved |-> FALSE,
     discovered_radicals |-> [p \in {0, 1} |-> {}]]

\* DailyWaaduruGame.__init__
DailyWaaduruGame(user_id, answer_word, channel_id) ==
    [user_id |-> user_id,
     channel_id |-> channel_id,
     answer_word |-> answer_word,
     guesses |-> << >>,
     solved |-> FALSE,
     discovered_radicals |-> [p \in {0, 1} |-> {}]]

\* KanjiPuzzleGame.__init__
KanjiPuzzleGame(channel_id, answer_word) ==
    [channel_id |-> channel_id,
     answer_word |-> answer_word,
     guesses |-> << >>,
     solved |-> FALSE,
     radicals |-> [i \in 1 .. Len(answer_word) |-> krad_get(answer_word[i])]]

NoShare == [p \in {} |-> {}]

\* a variant that looks for shared radicals at the guess's own position only
check_guess_same_position(answer_word, guess_word) ==
    IF Len(guess_word) # 2 THEN << >>
    ELSE LET answer_radicals == [i \in 1 .. Len(answer_word) |-> krad_get(answer_word[i])]
             Result(i) ==
                 LET guess_kanji == guess_word[i]
                     guess_radicals == krad_get(guess_kanji)
                     shared_by_position ==
                         [p \in { q \in {i - 1} :
                                    guess_radicals \cap answer_radicals[q + 1] # {} } |->
                             guess_radicals \cap answer_radicals[p + 1]]
                 IN  IF guess_kanji = answer_word[i]
                     THEN [result |-> GREEN, shared |-> NoShare]
                     ELSE IF \E j \in 1 .. Len(answer_word) : answer_word[j] = guess_kanji
                     THEN [result |-> YELLOW, shared |-> NoShare]
                     ELSE IF DOMAIN shared_by_position # {}
                     THEN [result |-> ORANGE, shared |-> shared_by_position]
                     ELSE [result |-> GRAY, shared |-> NoShare]
         IN  [i \in 1 .. 2 |-> Result(i)]

\* check_guess that reports every radical of an orange guess kanji as shared
check_guess_all_radicals(answer_word, guess_word) ==
    IF Len(guess_word) # 2 THEN << >>
    ELSE LET answer_radicals == [i \in 1 .. Len(answer_word) |-> krad_get(answer_word[i])]
             Result(i) ==
                 LET guess_kanji == guess_word[i]
                     guess_radicals == krad_get(guess_kanji)
                     shared_by_position ==
                         [p \in { q \in 0 .. Len(answer_radicals) - 1 :
                                    guess_radicals \cap answer_radicals[q + 1] # {} } |->
                             guess_radicals]
                 IN  IF guess_kanji = answer_word[i]
                     THEN [result |-> GREEN, shared |-> NoShare]
                     ELSE IF \E j \in 1 .. Len(answer_word) : answer_word[j] = guess_kanji
                     THEN [result |-> YELLOW, shared |-> NoShare]
                     ELSE IF DOMAIN shared_by_position # {}
                     THEN [result |-> ORANGE, shared |-> shared_by_position]
                     ELSE [result |-> GRAY, shared |-> NoShare]
         IN  [i \in 1 .. 2 |-> Result(i)]

\* WaaduruGame.check_guess (bot.py:1552-1591); << >> stands for None
check_guess(answer_word, guess_word) ==
    IF Len(guess_word) # 2 THEN << >>
    ELSE LET answer_radicals == [i \in 1 .. Len(answer_word) |-> krad_get(answer_word[i])]
             Result(i) ==
                 LET guess_kanji == guess_word[i]
                     guess_radicals == krad_get(guess_kanji)
                     shared_by_position ==
                         [p \in { q \in 0 .. Len(answer_radicals) - 1 :
                                    guess_radicals \cap answer_radicals[q + 1] # {} } |->
                             guess_radicals \cap answer_radicals[p + 1]]
                 IN  IF guess_kanji = answer_word[i]
                     THEN [result |-> GREEN, shared |-> NoShare]
                     ELSE IF \E j \in 1 .. Len(answer_word) : answer_word[j] = guess_kanji
                     THEN [result |-> YELLOW, shared |-> NoShare]
                     ELSE IF DOMAIN shared_by_position # {}
                     THEN [result |-> ORANGE, shared |-> shared_by_position]
                     ELSE [result |-> GRAY, shared |-> NoShare]
         IN  [i \in 1 .. 2 |-> Result(i)]

\* a variant without the test for the kanji at the other position
daily_check_guess_no_yellow(answer_word, guess_word) ==
    IF Len(guess_word) # 2 THEN << >>
    ELSE LET answer_radicals == [i \in 1 .. Len(answer_word) |-> krad_get(answer_word[i])]
             Result(i) ==
                 LET guess_kanji == guess_word[i]
                     guess_radicals == krad_get(guess_kanji)
                     shared_by_position ==
                         [p \in { q \in 0 .. Len(answer_radicals) - 1 :
                                    guess_radicals \cap answer_radicals[q + 1] # {} } |->
                             guess_radicals \cap answer_radicals[p + 1]]
                 IN  IF guess_kanji = answer_word[i]
                     THEN [result |-> GREEN, shared |-> NoShare]
                     ELSE IF DOMAIN shared_by_position # {}
                     THEN [result |-> ORANGE, shared |-> shared_by_position]
                     ELSE [result |-> GRAY, shared |-> NoShare]
         IN  [i \in 1 .. 2 |-> Result(i)]

\* DailyWaaduruGame.check_guess (bot.py:1643-1675)
daily_check_guess(answer_word, guess_word) ==
    IF Len(guess_word) # 2 THEN << >>
    ELSE LET answer_radicals == [i \in 1 .. Len(answer_word) |-> krad_get(answer_word[i])]
             Result(i) ==
                 LET guess_kanji == guess_word[i]
                     guess_radicals == krad_get(guess_kanji)
                     shared_by_position ==
                         [p \in { q \in 0 .. Len(answer_radicals) - 1 :
                                    guess_radicals \cap answer_radicals[q + 1] # {} } |->
                             guess_radicals \cap answer_radicals[p + 1]]
                 IN  IF guess_kanji = answer_word[i]
                     THEN [result |-> GREEN, shared |-> NoShare]
                     ELSE IF \E j \in 1 .. Len(answer_word) : answer_word[j] = guess_kanji
                     THEN [result |-> YELLOW, shared |-> NoShare]
                     ELSE IF DOMAIN shared_by_position # {}
                     THEN [result |-> ORANGE, shared |-> shared_by_position]
                     ELSE [result |-> GRAY, shared |-> NoShare]
         IN  [i \in 1 .. 2 |-> Result(i)]

\* the radicals the orange results of a guess share with answer position p
Discovered(results, p) ==
    UNION { results[i].shared[p] :
              i \in { j \in 1 .. Len(results) :
                        results[j].result = ORANGE /\ p \in DOMAIN results[j].shared } }

\* a variant that takes a guess with the right first kanji for the answer
add_guess_first_kanji(game, guess_word, results) ==
    [game EXCEPT
        !.guesses = Append(@, [word |-> guess_word, results |-> results]),
        !.solved = IF guess_word[1] = game.answer_word[1] THEN TRUE ELSE @,
        !.discovered_radicals = [p \in {0, 1} |-> @[p] \cup Discovered(results, p)]]

\* a variant that keeps the hint of the last guess only
add_guess_last_hint(game, guess_word, results) ==
    [game EXCEPT
        !.guesses = Append(@, [word |-> guess_word, results |-> results]),
        !.solved = IF guess_word = game.answer_word THEN TRUE ELSE @,
        !.discovered_radicals = [p \in {0, 1} |-> Discovered(results, p)]]

\* WaaduruGame.add_guess (bot.py:1593-1603)
add_guess(game, guess_word, results) ==
    [game EXCEPT
        !.guesses = Append(@, [word |-> guess_word, results |-> results]),
        !.solved = IF guess_word = game.answer_word THEN TRUE ELSE @,
        !.discovered_radicals = [p \in {0, 1} |-> @[p] \cup Discovered(results, p)]]

\* DailyWaaduruGame.add_guess (bot.py:1677-1685)
daily_add_guess(game, guess_word, results) ==
    [game EXCEPT
        !.guesses = Append(@, [word |-> guess_word, results |-> results]),
        !.solved = IF guess_word = game.answer_word THEN TRUE ELSE @,
        !.discovered_radicals = [p \in {0, 1} |-> @[p] \cup Discovered(results, p)]]

\* is_game_over that forgets the budget of guesses
is_game_over_solved_only(game) == game.solved

\* is_game_over of the three puzzle classes
is_game_over(game) == game.solved \/ Len(game.guesses) >= max_guesses

\* get_remaining_guesses (bot.py:1615-1616)
get_remaining_guesses(game) == max_guesses - Len(game.guesses)

\* format_daily_public_result (bot.py:1783-1791): one square per position, by its tier
format_daily_public_result(results) ==
    LET color_emoji(r) == CASE r = GREEN -> \h1F7E9 [] r = YELLOW -> \h1F7E8
                            [] r = ORANGE -> \h1F7E7 [] r = GRAY -> \h2B1B
    IN  [i \in 1 .. Len(results) |-> color_emoji(results[i].result)]

\* a variant that shows each guess as the private embed does (format_waaduru_result,
\* bot.py:1852-1861): the two kanji before the squares
create_daily_public_embed_with_kanji(game, user_name, japan_date) ==
    LET remaining == get_remaining_guesses(game)
        description_lines ==
            [k \in 1 .. Len(game.guesses) |->
                << game.guesses[k].word[1], 32, game.guesses[k].word[2], 32, 32 >>
                    \o format_daily_public_result(game.guesses[k].results)]
            \o [k \in 1 .. (IF remaining > 0 THEN remaining ELSE 0) |-> << \h2B1C, \h2B1C >>]
    IN  [title |-> "Daily Waaduru - {user_name}",
         user_name |-> user_name,
         count |-> Len(game.guesses),
         description |-> description_lines,
         note |-> "",
         footer |-> japan_date]

\* create_daily_public_embed (bot.py:1794-1823): the lines of squares of the guesses,
\* a line of white squares per remaining guess, and a title, a closing note and a
\* colour by the state of the puzzle; the texts are given by their templates and the
\* values put into them
create_daily_public_embed(game, user_name, japan_date) ==
    LET remaining == get_remaining_guesses(game)
        description_lines ==
            [k \in 1 .. Len(game.guesses) |->
                format_daily_public_result(game.guesses[k].results)]
            \o [k \in 1 .. (IF remaining > 0 THEN remaining ELSE 0) |-> << \h2B1C, \h2B1C >>]
    IN  IF game.solved
        THEN [title |-> "Daily Waaduru - {user_name} solved it!",
              user_name |-> user_name,
              count |-> Len(game.guesses),
              description |-> description_lines,
              note |-> "**Solved in {count}/5 guesses!**",
              footer |-> japan_date]
        ELSE IF is_game_over(game)
        THEN [title |-> "Daily Waaduru - {user_name}",
              user_name |-> user_name,
              count |-> 0,
              description |-> description_lines,
              note |-> "**Better luck tomorrow!**",
              footer |-> japan_date]
        ELSE [title |-> "Daily Waaduru - {user_name} ({count}/5)",
              user_name |-> user_name,
              count |-> Len(game.guesses),
              description |-> description_lines,
              note |-> "",
              footer |-> japan_date]

\* KanjiPuzzleGame.check_guess (bot.py:2287-2299): is_correct and the marks per position
kanjipuzzle_check_guess(answer_word, guess_word) ==
    IF guess_word = answer_word
    THEN [is_correct |-> TRUE, feedback |-> << >>]
    ELSE [is_correct |-> FALSE,
          feedback |-> [i \in 1 .. (IF Len(guess_word) < Len(answer_word)
                                    THEN Len(guess_word) ELSE Len(answer_word)) |->
                           guess_word[i] = answer_word[i]]]

\* KanjiPuzzleGame.add_guess (bot.py:2301-2304)
kanjipuzzle_add_guess(game, guess_word, feedback) ==
    [game EXCEPT
        !.guesses = Append(@, [word |-> guess_word, feedback |-> feedback]),
        !.solved = IF guess_word = game.answer_word THEN TRUE ELSE @]

\* validate_jukugo_guess (bot.py:1972-1987), given whether the request succeeds
validate_jukugo_guess(ok, word) ==
    /\ Len(word) = 2
    /\ \A i \in 1 .. Len(word) : word[i] \in DOMAIN KRAD_MAP
    /\ lookup_word(ok, word, NoneStr).valid

(***************************************************************************)
(* Handlers.  A record of `tasks` holds the locals of one handler that is  *)
(* suspended at an await: pc names the await, kind the registry the        *)
(* handler works on, game the object it holds a reference to.              *)
(***************************************************************************)
Idle ==
    [pc |-> "idle", kind |-> "none", channel_id |-> "none", author |-> NoUser,
     content |-> <<>>, game |-> NoRef, kana |-> NoneStr, last_kana |-> NoneStr,
     emoji |-> "none", date |-> 0, index |-> 0, deleted |-> FALSE]

\* a handler that has only reactions and replies left to send
Reacting(emoji) == [Idle EXCEPT !.pc = "react", !.emoji = emoji]

\* a handler that has changed its game and has only the reply that shows it left to send
Showing(emoji, game) == [Reacting(emoji) EXCEPT !.kind = "chain", !.game = game]

\* a handler ended by an exception it does not catch
Raised(error) == [Idle EXCEPT !.pc = "raised", !.emoji = error]

IdleTasks == { t \in Tasks : tasks[t].pc = "idle" }

\* the task the event loop creates for a new event
NewTask(t) == t \in IdleTasks /\ \A u \in IdleTasks : t <= u

\* the objects of one class still referenced: by their registry or by a handler's local
Reachable(reg, tk, kind) ==
    { reg[k] : k \in DOMAIN reg } \cup { tk[t].game : t \in { u \in Tasks : tk[u].kind = kind } }

\* a heap without the objects nothing refers to any more
Collect(heap, reg, tk, kind) ==
    [g \in DOMAIN heap \cap Reachable(reg, tk, kind) |-> heap[g]]

\* the reference a new object gets
NewRef(heap) ==
    CHOOSE g \in GameIds \ DOMAIN heap : \A h \in GameIds \ DOMAIN heap : g <= h

\* a pop that reads the entry and leaves it in the registry
Pop_reads(reg, key) == reg

\* dict.pop(key, None) and, for a key that is present, dict.pop(key)
Pop(reg, key) == [reg EXCEPT ![key] = NoRef]

TypeOK ==
    /\ active_games \in [Channels -> GameIds \cup {NoRef}]
    /\ active_waaduru_games \in [Channels -> GameIds \cup {NoRef}]
    /\ active_kanjipuzzle_games \in [Channels -> GameIds \cup {NoRef}]
    /\ active_daily_waaduru_games \in [Users -> GameIds \cup {NoRef}]
    /\ DOMAIN games = Reachable(active_games, tasks, "chain") \ {NoRef}
    /\ DOMAIN waaduru_games = Reachable(active_waaduru_games, tasks, "waaduru") \ {NoRef}
    /\ DOMAIN daily_games = Reachable(active_daily_waaduru_games, tasks, "daily") \ {NoRef}
    /\ DOMAIN kanjipuzzle_games =
           Reachable(active_kanjipuzzle_games, tasks, "kanjipuzzle") \ {NoRef}

NoWordOfTheDay == [date |-> 0, word |-> NoneStr]

Init ==
    /\ active_games = [c \in Channels |-> NoRef]
    /\ games = << >>
    /\ active_waaduru_games = [c \in Channels |-> NoRef]
    /\ waaduru_games = << >>
    /\ active_daily_waaduru_games = [u \in Users |-> NoRef]
    /\ daily_games = << >>
    /\ active_kanjipuzzle_games = [c \in Channels |-> NoRef]
    /\ kanjipuzzle_games = << >>
    /\ daily_waaduru_word = NoWordOfTheDay
    /\ today = 1
    /\ tasks = [t \in Tasks |-> Idle]

(***************************************************************************)
(* /shiritori1, /shiritori2, /wordbasket, /endgame (bot.py:1139-1278).     *)
(* No await separates the registry test from the registry update.          *)
(***************************************************************************)
\* start_game without the test of the registry
start_game_unchecked(channel_id, mode, kana, other) ==
    /\ games' = (NewRef(games) :> ShiritoriGame(channel_id, mode, kana, other))
                     @@ Collect(games, Pop(active_games, channel_id), tasks, "chain")
    /\ active_games' = [active_games EXCEPT ![channel_id] = NewRef(games)]
    /\ UNCHANGED <<puzzleVars, tasks>>

start_game(channel_id, mode, kana, other) ==
    IF active_games[channel_id] # NoRef
    THEN UNCHANGED vars                     \* "A game is already running"
    ELSE /\ games' = (NewRef(games) :> ShiritoriGame(channel_id, mode, kana, other)) @@ games
         /\ active_games' = [active_games EXCEPT ![channel_id] = NewRef(games)]
         /\ UNCHANGED <<puzzleVars, tasks>>

shiritori1(channel_id) ==
    \E kana \in KanaChoices : start_game(channel_id, VS_BOT, kana, NoneStr)

shiritori2(channel_id) ==
    \E kana \in KanaChoices : start_game(channel_id, MULTIPLAYER, kana, NoneStr)

wordbasket(channel_id) ==
    \E kana \in KanaChoices : \E other \in _get_different_kana(kana) :
        start_game(channel_id, WORD_BASKET, kana, other)

endgame(channel_id) ==
    IF active_games[channel_id] = NoRef
    THEN UNCHANGED vars                     \* "No game is running"
    ELSE /\ active_games' = Pop(active_games, channel_id)
         /\ games' = Collect(games, active_games', tasks, "chain")
         /\ UNCHANGED <<puzzleVars, tasks>>

(***************************************************************************)
(* on_message, the chain game part (bot.py:1339-1521).                     *)
(***************************************************************************)
\* the has_jp loop of on_message
has_jp(content) ==
    \E i \in 1 .. Len(content) : IsKana(content[i]) \/ IsKanji(content[i])

\* bot.py:1339-1355: up to the await of lookup_word(content, game.current_kana)
on_message_chain(t, channel_id, author, content) ==
    IF active_games[channel_id] = NoRef \/ ~has_jp(content)
    THEN UNCHANGED vars
    ELSE /\ tasks' = [tasks EXCEPT ![t] =
                [Idle EXCEPT !.pc = "lookup_word",
                             !.kind = "chain",
                             !.channel_id = channel_id,
                             !.author = author,
                             !.content = content,
                             !.game = active_games[channel_id],
                             !.kana = games[active_games[channel_id]].current_kana]]
         /\ UNCHANGED <<chainVars, puzzleVars>>

\* Verdict with the test for a used word ahead of the test of the end kana
Verdict_repeat_first(game, content, r) ==
    LET normalized_last == normalize_for_comparison(get_last_kana(r.reading))
    IN  IF ~r.valid THEN "question"
        ELSE IF content \in game.used_words \/ r.reading \in game.used_words
        THEN "repeat"
        ELSE IF game.mode = WORD_BASKET
                /\ normalized_last # normalize_for_comparison(game.end_kana)
        THEN "cross"
        ELSE IF game.mode # WORD_BASKET /\ normalized_last = <<HiraN>>
        THEN "skull"
        ELSE "check"

\* Verdict without the test for a last kana ん
Verdict_no_skull(game, content, r) ==
    LET normalized_last == normalize_for_comparison(get_last_kana(r.reading))
    IN  IF ~r.valid THEN "question"
        ELSE IF game.mode = WORD_BASKET
                /\ normalized_last # normalize_for_comparison(game.end_kana)
        THEN "cross"
        ELSE IF content \in game.used_words \/ r.reading \in game.used_words
        THEN "repeat"
        ELSE "check"

\* what the handler does with the result r of lookup_word, by the tests of
\* bot.py:1357-1413 in their order
Verdict(game, content, r) ==
    LET last_kana == get_last_kana(r.reading)
        normalized_last == normalize_for_comparison(last_kana)
    IN  IF ~r.valid THEN "question"
        ELSE IF game.mode = WORD_BASKET
                /\ normalized_last # normalize_for_comparison(game.end_kana)
        THEN "cross"
        ELSE IF content \in game.used_words \/ r.reading \in game.used_words
        THEN "repeat"
        ELSE IF game.mode # WORD_BASKET /\ normalize_for_comparison(last_kana) = <<HiraN>>
        THEN "skull"
        ELSE "check"

\* accept_word that records the surface form only
accept_word_surface_only(game, content, reading) ==
    [game EXCEPT !.used_words = @ \cup {content},
                 !.chain_count = @ + 1,
                 !.last_word = content,
                 !.last_reading = reading]

\* bot.py:1415-1421: the word is valid, the game takes it
accept_word(game, content, reading) ==
    [game EXCEPT !.used_words = @ \cup {content, reading},
                 !.chain_count = @ + 1,
                 !.last_word = content,
                 !.last_reading = reading]

\* bot.py:1355-1423: from the result of lookup_word up to the next await
after_lookup_word(t, ok) ==
    /\ tasks[t].pc = "lookup_word"
    /\ LET tk == tasks[t]
           game == games[tk.game]
           r == lookup_word(ok, tk.content, tk.kana)
           verdict == Verdict(game, tk.content, r)
           Leave(task, reg, heap) ==
               /\ tasks' = [tasks EXCEPT ![t] = task]
               /\ active_games' = reg
               /\ games' = Collect(heap, reg, tasks', "chain")
           Replying(emoji) == [Reacting(emoji) EXCEPT !.content = tk.content]
       IN  IF verdict \in {"question", "cross", "repeat"}
           THEN Leave(Replying(verdict), active_games, games)
           ELSE IF verdict = "skull"
           THEN IF active_games[tk.channel_id] = NoRef
                THEN Leave(Raised("KeyError"), active_games, games)
                ELSE Leave(Replying("skull"), Pop(active_games, tk.channel_id), games)
           ELSE Leave([tk EXCEPT !.pc = "accepted",
                                 !.kana = NoneStr,
                                 !.last_kana = get_last_kana(r.reading)],
                      active_games,
                      [games EXCEPT ![tk.game] = accept_word(game, tk.content, r.reading)])
    /\ UNCHANGED puzzleVars

\* next_basket that draws a new start kana and keeps the end kana
next_basket_keeps_end(game, author, kana, other) ==
    [game EXCEPT !.scores = add_score(@, author),
                 !.current_kana = kana]

\* bot.py:1500-1506: the word basket's next challenge, with the two random draws given
next_basket(game, author, kana, other) ==
    [game EXCEPT !.scores = add_score(@, author),
                 !.current_kana = kana,
                 !.end_kana = other]

\* bot.py:1425-1440, 1480-1506: after the reaction to an accepted word, by mode
after_accepted(t) ==
    /\ tasks[t].pc = "accepted"
    /\ LET tk == tasks[t]
           game == games[tk.game]
       IN  \/ /\ game.mode = VS_BOT
              /\ tasks' = [tasks EXCEPT ![t] =
                     [tk EXCEPT !.pc = "find_bot_word", !.author = NoUser, !.content = <<>>]]
              /\ games' = [games EXCEPT ![tk.game].current_kana = tk.last_kana]
           \/ /\ game.mode = MULTIPLAYER
              /\ tasks' = [tasks EXCEPT ![t] = Showing("point", tk.game)]
              /\ games' = Collect([games EXCEPT ![tk.game] =
                                      [game EXCEPT !.current_kana = tk.last_kana,
                                                   !.scores = add_score(@, tk.author)]],
                                  active_games, tasks', "chain")
           \/ /\ game.mode = WORD_BASKET
              /\ \E kana \in KanaChoices : \E other \in _get_different_kana(kana) :
                    /\ tasks' = [tasks EXCEPT ![t] = Showing("point", tk.game)]
                    /\ games' = Collect([games EXCEPT ![tk.game] =
                                            next_basket(game, tk.author, kana, other)],
                                        active_games, tasks', "chain")
    /\ UNCHANGED <<active_games, puzzleVars>>

\* bot.py:1441-1478: from the result of find_bot_word to the end of the handler
after_find_bot_word(t, ok) ==
    /\ tasks[t].pc = "find_bot_word"
    /\ LET tk == tasks[t]
           game == games[tk.game]
       IN  \E bot \in find_bot_word(ok, tk.last_kana, game.used_words) :
              IF bot = NoWord
              THEN IF active_games[tk.channel_id] = NoRef
                   THEN /\ tasks' = [tasks EXCEPT ![t] = Raised("KeyError")]
                        /\ games' = Collect(games, active_games, tasks', "chain")
                        /\ UNCHANGED active_games
                   ELSE /\ tasks' = [tasks EXCEPT ![t] = Showing("win", tk.game)]
                        /\ active_games' = Pop(active_games, tk.channel_id)
                        /\ games' = Collect(games, active_games', tasks', "chain")
              ELSE /\ tasks' = [tasks EXCEPT ![t] = Showing("bot", tk.game)]
                   /\ games' = Collect([games EXCEPT ![tk.game] =
                                           [accept_word(game, bot.word, bot.reading) EXCEPT
                                               !.current_kana = get_last_kana(bot.reading)]],
                                       active_games, tasks', "chain")
                   /\ UNCHANGED active_games
    /\ UNCHANGED puzzleVars

\* the reactions and replies that end a handler change nothing
handler_returns(t) ==
    /\ tasks[t].pc \in {"react", "raised"}
    /\ tasks' = [tasks EXCEPT ![t] = Idle]
    /\ games' = Collect(games, active_games, tasks', "chain")
    /\ UNCHANGED <<active_games, puzzleVars>>

(***************************************************************************)
(* /waaduru, /endwaaduru, /kanjipuzzle (bot.py:2102-2250, 2376-2418).      *)
(* The registry test and the registry update are separated by awaits.      *)
(***************************************************************************)
\* bot.py:2188-2198: /waaduru random up to the awaits of defer and get_random_jukugo
waaduru_random(t, channel_id) ==
    NewTask(t) /\
    IF active_waaduru_games[channel_id] # NoRef
    THEN UNCHANGED vars                     \* "A Waaduru game is already running"
    ELSE /\ tasks' = [tasks EXCEPT ![t] =
                [Idle EXCEPT !.pc = "get_random_jukugo", !.kind = "waaduru",
                             !.channel_id = channel_id]]
         /\ UNCHANGED <<chainVars, puzzleVars>>

\* bot.py:2200-2234: /waaduru random from the result of get_random_jukugo
waaduru_random_created(t, answer_word) ==
    /\ tasks[t].pc = "get_random_jukugo" /\ tasks[t].kind = "waaduru"
    /\ answer_word \in get_random_jukugo
    /\ tasks' = [tasks EXCEPT ![t] = Idle]
    /\ IF answer_word = NoneStr
       THEN UNCHANGED waaduruVars            \* "Failed to find a word"
       ELSE /\ active_waaduru_games' =
                   [active_waaduru_games EXCEPT ![tasks[t].channel_id] = NewRef(waaduru_games)]
            /\ waaduru_games' =
                   Collect((NewRef(waaduru_games) :>
                               WaaduruGame(tasks[t].channel_id, answer_word)) @@ waaduru_games,
                           active_waaduru_games', tasks', "waaduru")
    /\ UNCHANGED <<chainVars, dailyVars, kanjipuzzleVars>>

\* bot.py:2239-2265
endwaaduru(channel_id) ==
    IF active_waaduru_games[channel_id] = NoRef
    THEN UNCHANGED vars                     \* "No Waaduru game is running"
    ELSE /\ active_waaduru_games' = Pop(active_waaduru_games, channel_id)
         /\ waaduru_games' = Collect(waaduru_games, active_waaduru_games', tasks, "waaduru")
         /\ UNCHANGED <<chainVars, dailyVars, kanjipuzzleVars, tasks>>

\* bot.py:2376-2388: /kanjipuzzle up to the awaits of defer and get_random_jukugo
kanjipuzzle(t, channel_id) ==
    NewTask(t) /\
    IF active_kanjipuzzle_games[channel_id] # NoRef
    THEN UNCHANGED vars                     \* "A Kanji Puzzle is already running"
    ELSE /\ tasks' = [tasks EXCEPT ![t] =
                [Idle EXCEPT !.pc = "get_random_jukugo", !.kind = "kanjipuzzle",
                             !.channel_id = channel_id]]
         /\ UNCHANGED <<chainVars, puzzleVars>>

\* bot.py:2390-2418: /kanjipuzzle from the result of get_random_jukugo
kanjipuzzle_created(t, answer_word) ==
    /\ tasks[t].pc = "get_random_jukugo" /\ tasks[t].kind = "kanjipuzzle"
    /\ answer_word \in get_random_jukugo
    /\ tasks' = [tasks EXCEPT ![t] = Idle]
    /\ IF answer_word = NoneStr
       THEN UNCHANGED kanjipuzzleVars
       ELSE /\ active_kanjipuzzle_games' =
                   [active_kanjipuzzle_games EXCEPT
                       ![tasks[t].channel_id] = NewRef(kanjipuzzle_games)]
            /\ kanjipuzzle_games' =
                   Collect((NewRef(kanjipuzzle_games) :>
                               KanjiPuzzleGame(tasks[t].channel_id, answer_word))
                           @@ kanjipuzzle_games,
                           active_kanjipuzzle_games', tasks', "kanjipuzzle")
    /\ UNCHANGED <<chainVars, waaduruVars, dailyVars>>

(***************************************************************************)
(* /waaduru daily and the word of the day (bot.py:1698-1780, 2112-2186).   *)
(***************************************************************************)
\* seeded_random.shuffle(shuffled_kanji): the order is a function of the date
shuffled_kanji(date) ==
    IF date % 2 = 1 THEN common_kanji
    ELSE [i \in 1 .. Len(common_kanji) |-> common_kanji[Len(common_kanji) + 1 - i]]

\* seeded_random.choice(candidates): a function of the date and of the list
seeded_choice(date, candidates) == candidates[(date % Len(candidates)) + 1]

\* bot.py:2112-2132: /waaduru daily up to the await of defer
waaduru_daily(t, channel_id, user_id) ==
    NewTask(t) /\
    IF active_daily_waaduru_games[user_id] # NoRef
    THEN UNCHANGED vars                     \* "already completed" or "in progress"
    ELSE /\ tasks' = [tasks EXCEPT ![t] =
                [Idle EXCEPT !.pc = "defer", !.kind = "daily",
                             !.channel_id = channel_id, !.author = user_id]]
         /\ UNCHANGED <<chainVars, puzzleVars>>

\* a variant that asks the service whatever the cache holds
get_daily_waaduru_word_uncached(t) ==
    /\ tasks[t].pc = "defer"
    /\ tasks' = [tasks EXCEPT ![t] =
            [@ EXCEPT !.pc = "request", !.date = today, !.index = 1]]
    /\ UNCHANGED <<chainVars, puzzleVars>>

\* bot.py:1704-1731: get_daily_waaduru_word up to its first request, or the cached word
get_daily_waaduru_word(t) ==
    /\ tasks[t].pc = "defer"
    /\ IF daily_waaduru_word.date = today /\ daily_waaduru_word.word # NoneStr
       THEN tasks' = [tasks EXCEPT ![t] =
                [@ EXCEPT !.pc = "followup", !.content = daily_waaduru_word.word]]
       ELSE tasks' = [tasks EXCEPT ![t] =
                [@ EXCEPT !.pc = "request", !.date = today, !.index = 1]]
    /\ UNCHANGED <<chainVars, puzzleVars>>

\* bot.py:1731-1780: one turn of the loop over shuffled_kanji, from the response on
daily_word_response(t, ok) ==
    /\ tasks[t].pc = "request"
    /\ LET tk == tasks[t]
           order == shuffled_kanji(tk.date)
           candidates == IF ok THEN JukugoCandidates(jisho_search(order[tk.index])) ELSE << >>
       IN  IF candidates # << >>
           THEN /\ daily_waaduru_word' =
                       [date |-> tk.date, word |-> seeded_choice(tk.date, candidates)]
                /\ tasks' = [tasks EXCEPT ![t] =
                       [tk EXCEPT !.pc = "followup", !.date = 0, !.index = 0,
                                  !.content = seeded_choice(tk.date, candidates)]]
           ELSE /\ UNCHANGED daily_waaduru_word
                /\ IF tk.index < Len(order)
                   THEN tasks' = [tasks EXCEPT ![t] = [tk EXCEPT !.index = @ + 1]]
                   ELSE tasks' = [tasks EXCEPT ![t] = Idle]   \* "Failed to find today's word"
    /\ UNCHANGED <<chainVars, waaduruVars, kanjipuzzleVars,
                   active_daily_waaduru_games, daily_games, today>>

\* bot.py:2158-2186: after the public message is sent, the game is created and registered
waaduru_daily_created(t) ==
    /\ tasks[t].pc = "followup"
    /\ tasks' = [tasks EXCEPT ![t] = Idle]
    /\ active_daily_waaduru_games' =
           [active_daily_waaduru_games EXCEPT ![tasks[t].author] = NewRef(daily_games)]
    /\ daily_games' =
           Collect((NewRef(daily_games) :>
                       DailyWaaduruGame(tasks[t].author, tasks[t].content, tasks[t].channel_id))
                   @@ daily_games,
                   active_daily_waaduru_games', tasks', "daily")
    /\ UNCHANGED <<chainVars, waaduruVars, kanjipuzzleVars, daily_waaduru_word, today>>

(***************************************************************************)
(* The guesses of the compound puzzles (bot.py:1990-2099, 2342-2374).      *)
(***************************************************************************)
\* bot.py:1990-1996: handle_waaduru_guess up to the await in validate_jukugo_guess
handle_waaduru_guess(t, channel_id, author, content) ==
    IF active_waaduru_games[channel_id] = NoRef
    THEN UNCHANGED vars
    ELSE IF is_game_over(waaduru_games[active_waaduru_games[channel_id]])
    THEN UNCHANGED vars
    ELSE /\ tasks' = [tasks EXCEPT ![t] =
                [Idle EXCEPT !.pc = "validate", !.kind = "waaduru",
                             !.channel_id = channel_id, !.author = author,
                             !.content = content,
                             !.game = active_waaduru_games[channel_id]]]
         /\ UNCHANGED <<chainVars, puzzleVars>>

\* a variant that leaves the message in the channel and starts the validation
handle_daily_waaduru_guess_keeps_message(t, channel_id, author, content) ==
    IF active_daily_waaduru_games[author] = NoRef
    THEN UNCHANGED vars
    ELSE IF is_game_over(daily_games[active_daily_waaduru_games[author]])
    THEN UNCHANGED vars
    ELSE /\ tasks' = [tasks EXCEPT ![t] =
                [Idle EXCEPT !.pc = "validate", !.kind = "daily",
                             !.channel_id = channel_id, !.author = author,
                             !.content = content,
                             !.game = active_daily_waaduru_games[author]]]
         /\ UNCHANGED <<chainVars, puzzleVars>>

\* bot.py:2044-2054: handle_daily_waaduru_guess up to the await of message.delete()
handle_daily_waaduru_guess(t, channel_id, author, content) ==
    IF active_daily_waaduru_games[author] = NoRef
    THEN UNCHANGED vars
    ELSE IF is_game_over(daily_games[active_daily_waaduru_games[author]])
    THEN UNCHANGED vars
    ELSE /\ tasks' = [tasks EXCEPT ![t] =
                [Idle EXCEPT !.pc = "delete", !.kind = "daily",
                             !.channel_id = channel_id, !.author = author,
                             !.content = content,
                             !.game = active_daily_waaduru_games[author]]]
         /\ UNCHANGED <<chainVars, puzzleVars>>

\* bot.py:2342-2350: handle_kanjipuzzle_guess up to the await in validate_jukugo_guess
handle_kanjipuzzle_guess(t, channel_id, author, content) ==
    IF active_kanjipuzzle_games[channel_id] = NoRef
    THEN UNCHANGED vars
    ELSE IF is_game_over(kanjipuzzle_games[active_kanjipuzzle_games[channel_id]])
    THEN UNCHANGED vars
    ELSE /\ tasks' = [tasks EXCEPT ![t] =
                [Idle EXCEPT !.pc = "validate", !.kind = "kanjipuzzle",
                             !.channel_id = channel_id, !.author = author,
                             !.content = content,
                             !.game = active_kanjipuzzle_games[channel_id]]]
         /\ UNCHANGED <<chainVars, puzzleVars>>

\* len(content) == 2 and all(char in KRAD_MAP for char in content)
two_kanji(content) ==
    Len(content) = 2 /\ \A i \in 1 .. Len(content) : content[i] \in DOMAIN KRAD_MAP

\* a variant without the test of the channel
routes_to_daily_any_channel(channel_id, author, content) ==
    IF active_daily_waaduru_games[author] = NoRef THEN FALSE
    ELSE /\ ~is_game_over(daily_games[active_daily_waaduru_games[author]])
         /\ two_kanji(content)

\* bot.py:1310-1342: the daily puzzle of the author in this channel, if it is running
routes_to_daily(channel_id, author, content) ==
    IF active_daily_waaduru_games[author] = NoRef THEN FALSE
    ELSE /\ daily_games[active_daily_waaduru_games[author]].channel_id = channel_id
         /\ ~is_game_over(daily_games[active_daily_waaduru_games[author]])
         /\ two_kanji(content)

\* a variant that asks the shared puzzle of the channel before the daily puzzle
on_message_shared_first(t, channel_id, author, content) ==
    /\ NewTask(t)
    /\ IF active_waaduru_games[channel_id] # NoRef /\ two_kanji(content)
       THEN handle_waaduru_guess(t, channel_id, author, content)
       ELSE IF routes_to_daily(channel_id, author, content)
       THEN handle_daily_waaduru_guess(t, channel_id, author, content)
       ELSE IF active_kanjipuzzle_games[channel_id] # NoRef /\ two_kanji(content)
       THEN handle_kanjipuzzle_guess(t, channel_id, author, content)
       ELSE on_message_chain(t, channel_id, author, content)

\* on_message (bot.py:1281-1355): the message goes to the first game that takes it
\* (a message of a user, not empty, in a channel that is not in immersion mode)
on_message(t, channel_id, author, content) ==
    /\ NewTask(t)
    /\ IF routes_to_daily(channel_id, author, content)
       THEN handle_daily_waaduru_guess(t, channel_id, author, content)
       ELSE IF active_waaduru_games[channel_id] # NoRef /\ two_kanji(content)
       THEN handle_waaduru_guess(t, channel_id, author, content)
       ELSE IF active_kanjipuzzle_games[channel_id] # NoRef /\ two_kanji(content)
       THEN handle_kanjipuzzle_guess(t, channel_id, author, content)
       ELSE on_message_chain(t, channel_id, author, content)

\* bot.py:2051-2057: message.delete() has withdrawn the message, or was refused with
\* Forbidden, which the handler passes over; then the validation starts
after_delete(t, outcome) ==
    /\ tasks[t].pc = "delete"
    /\ tasks' = [tasks EXCEPT ![t] =
            [@ EXCEPT !.pc = "validate", !.deleted = (outcome = "deleted")]]
    /\ UNCHANGED <<chainVars, puzzleVars>>

\* a handler with a finished shared puzzle, at the reaction that precedes the pop
Popping(kind, channel_id) ==
    [Idle EXCEPT !.pc = "pop", !.kind = kind, !.channel_id = channel_id]

\* bot.py:1997-2041: handle_waaduru_guess from the result of the validation
waaduru_validated(t, ok) ==
    /\ tasks[t].pc = "validate" /\ tasks[t].kind = "waaduru"
    /\ LET tk == tasks[t]
           game == waaduru_games[tk.game]
           results == check_guess(game.answer_word, tk.content)
           after == add_guess(game, tk.content, results)
       IN  IF ~validate_jukugo_guess(ok, tk.content)
           THEN /\ tasks' = [tasks EXCEPT ![t] = Reacting("question")]
                /\ waaduru_games' =
                       Collect(waaduru_games, active_waaduru_games, tasks', "waaduru")
           ELSE IF results = << >>
           THEN /\ tasks' = [tasks EXCEPT ![t] = Idle]
                /\ waaduru_games' =
                       Collect(waaduru_games, active_waaduru_games, tasks', "waaduru")
           ELSE /\ tasks' = [tasks EXCEPT ![t] =
                       IF is_game_over(after)
                       THEN Popping("waaduru", tk.channel_id)
                       ELSE Reacting("result")]
                /\ waaduru_games' =
                       Collect([waaduru_games EXCEPT ![tk.game] = after],
                               active_waaduru_games, tasks', "waaduru")
    /\ UNCHANGED <<chainVars, active_waaduru_games, dailyVars, kanjipuzzleVars>>

\* bot.py:2058-2099: handle_daily_waaduru_guess from the result of the validation
daily_validated(t, ok) ==
    /\ tasks[t].pc = "validate" /\ tasks[t].kind = "daily"
    /\ LET tk == tasks[t]
           game == daily_games[tk.game]
           results == daily_check_guess(game.answer_word, tk.content)
       IN  IF ~validate_jukugo_guess(ok, tk.content)
           THEN /\ tasks' = [tasks EXCEPT ![t] = Reacting("question")]
                /\ daily_games' =
                       Collect(daily_games, active_daily_waaduru_games, tasks', "daily")
           ELSE IF results = << >>
           THEN /\ tasks' = [tasks EXCEPT ![t] = Idle]
                /\ daily_games' =
                       Collect(daily_games, active_daily_waaduru_games, tasks', "daily")
           ELSE /\ tasks' = [tasks EXCEPT ![t] = Reacting("result")]
                /\ daily_games' =
                       Collect([daily_games EXCEPT ![tk.game] =
                                   daily_add_guess(game, tk.content, results)],
                               active_daily_waaduru_games, tasks', "daily")
    /\ UNCHANGED <<chainVars, waaduruVars, kanjipuzzleVars,
                   active_daily_waaduru_games, daily_waaduru_word, today>>

\* bot.py:2351-2374: handle_kanjipuzzle_guess from the result of the validation
kanjipuzzle_validated(t, ok) ==
    /\ tasks[t].pc = "validate" /\ tasks[t].kind = "kanjipuzzle"
    /\ LET tk == tasks[t]
           game == kanjipuzzle_games[tk.game]
           checked == kanjipuzzle_check_guess(game.answer_word, tk.content)
           after == kanjipuzzle_add_guess(game, tk.content, checked.feedback)
       IN  IF ~validate_jukugo_guess(ok, tk.content)
           THEN /\ tasks' = [tasks EXCEPT ![t] = Reacting("question")]
                /\ kanjipuzzle_games' =
                       Collect(kanjipuzzle_games, active_kanjipuzzle_games, tasks',
                               "kanjipuzzle")
           ELSE /\ tasks' = [tasks EXCEPT ![t] =
                       IF is_game_over(after)
                       THEN Popping("kanjipuzzle", tk.channel_id)
                       ELSE Reacting("result")]
                /\ kanjipuzzle_games' =
                       Collect([kanjipuzzle_games EXCEPT ![tk.game] = after],
                               active_kanjipuzzle_games, tasks', "kanjipuzzle")
    /\ UNCHANGED <<chainVars, waaduruVars, dailyVars, active_kanjipuzzle_games>>

\* a handler that sends the final reply of a finished puzzle and leaves the registry
after_reaction_reply(t) ==
    /\ tasks[t].pc = "pop"
    /\ tasks' = [tasks EXCEPT ![t] = Reacting("result")]
    /\ waaduru_games' = Collect(waaduru_games, active_waaduru_games, tasks', "waaduru")
    /\ kanjipuzzle_games' =
           Collect(kanjipuzzle_games, active_kanjipuzzle_games, tasks', "kanjipuzzle")
    /\ UNCHANGED <<chainVars, dailyVars, active_waaduru_games, active_kanjipuzzle_games>>

\* bot.py:2016-2025, 2361-2366: after the reaction, registry.pop(channel_id, None)
after_reaction_pop(t) ==
    /\ tasks[t].pc = "pop"
    /\ tasks' = [tasks EXCEPT ![t] = Reacting("result")]
    /\ IF tasks[t].kind = "waaduru"
       THEN /\ active_waaduru_games' = Pop(active_waaduru_games, tasks[t].channel_id)
            /\ waaduru_games' =
                   Collect(waaduru_games, active_waaduru_games', tasks', "waaduru")
            /\ UNCHANGED kanjipuzzleVars
       ELSE /\ active_kanjipuzzle_games' =
                   Pop(active_kanjipuzzle_games, tasks[t].channel_id)
            /\ kanjipuzzle_games' =
                   Collect(kanjipuzzle_games, active_kanjipuzzle_games', tasks',
                           "kanjipuzzle")
            /\ UNCHANGED waaduruVars
    /\ UNCHANGED <<chainVars, dailyVars>>

(***************************************************************************)
(* Specifications.                                                         *)
(***************************************************************************)
\* users type words while the chain of the channel is shorter than MaxChain
Typing(channel_id) ==
    IF active_games[channel_id] = NoRef THEN TRUE
    ELSE games[active_games[channel_id]].chain_count < MaxChain

\* the chain game: its commands at any time, one message handler at a time
NextChain ==
    \/ \E c \in OneChannel : shiritori1(c)
    \/ \E c \in OneChannel : shiritori2(c)
    \/ \E c \in OneChannel : wordbasket(c)
    \/ \E c \in OneChannel : endgame(c)
    \/ \E t \in OneTask, c \in OneChannel, u \in Users, m \in Messages :
          Typing(c) /\ on_message(t, c, u, m)
    \/ \E t \in Tasks, ok \in BOOLEAN : after_lookup_word(t, ok)
    \/ \E t \in Tasks : after_accepted(t)
    \/ \E t \in Tasks, ok \in BOOLEAN : after_find_bot_word(t, ok)
    \/ \E t \in Tasks : handler_returns(t)

SpecChain == Init /\ [][NextChain]_vars

\* the chain game against the computer or among players with two messages in flight
\* at a time: the players write 家 or 歌
NextChainRace ==
    \/ \E c \in OneChannel : shiritori1(c)
    \/ \E c \in OneChannel : shiritori2(c)
    \/ \E t \in Tasks, c \in OneChannel, u \in Users, m \in {W_ie, W_uta} :
          Typing(c) /\ on_message(t, c, u, m)
    \/ \E t \in Tasks, ok \in BOOLEAN : after_lookup_word(t, ok)
    \/ \E t \in Tasks : after_accepted(t)
    \/ \E t \in Tasks, ok \in BOOLEAN : after_find_bot_word(t, ok)
    \/ \E t \in Tasks : handler_returns(t)

SpecChainRace == Init /\ [][NextChainRace]_vars

\* daily_waaduru_reset_task (bot.py:946-959): the loop runs at 0:00 in Japan, when
\* get_daily_date_string moves on to the next day
daily_waaduru_reset_task ==
    /\ today < MaxDay
    /\ today' = today + 1
    /\ active_daily_waaduru_games' = [u \in Users |-> NoRef]
    /\ daily_waaduru_word' = NoWordOfTheDay
    /\ daily_games' = Collect(daily_games, active_daily_waaduru_games', tasks, "daily")
    /\ UNCHANGED <<chainVars, waaduruVars, kanjipuzzleVars, tasks>>

\* the steps of the handlers of /waaduru and of its guesses that follow an await
PuzzleSteps ==
    \/ \E t \in Tasks, w \in get_random_jukugo : waaduru_random_created(t, w)
    \/ \E t \in Tasks : get_daily_waaduru_word(t)
    \/ \E t \in Tasks, ok \in BOOLEAN : daily_word_response(t, ok)
    \/ \E t \in Tasks : waaduru_daily_created(t)
    \/ \E t \in Tasks, outcome \in {"deleted", "Forbidden"} : after_delete(t, outcome)
    \/ \E t \in Tasks, ok \in BOOLEAN : waaduru_validated(t, ok)
    \/ \E t \in Tasks, ok \in BOOLEAN : daily_validated(t, ok)
    \/ \E t \in Tasks : after_reaction_pop(t)
    \/ \E t \in Tasks : handler_returns(t)

\* the steps of the handlers of /kanjipuzzle and of its guesses that follow an await
KanjiPuzzleSteps ==
    \/ \E t \in Tasks, w \in get_random_jukugo : kanjipuzzle_created(t, w)
    \/ \E t \in Tasks, ok \in BOOLEAN : kanjipuzzle_validated(t, ok)

\* the commands of the users of U, handled by the tasks of T
StartEvents(T, U) ==
    \/ \E t \in T, c \in OneChannel : waaduru_random(t, c)
    \/ \E t \in T, c \in OneChannel, u \in U : waaduru_daily(t, c, u)
    \/ \E c \in OneChannel : endwaaduru(c)

\* the guesses of the users of U, handled by the tasks of T
GuessEvents(T, U) ==
    \E t \in T, c \in OneChannel, u \in U, m \in Guesses : on_message(t, c, u, m)

\* /waaduru with one event handled at a time, over the days
NextPuzzleSerial ==
    \/ StartEvents(OneTask, Users)
    \/ GuessEvents(OneTask, Users)
    \/ PuzzleSteps
    \/ daily_waaduru_reset_task

SpecPuzzleSerial == Init /\ [][NextPuzzleSerial]_vars

\* /waaduru with two guesses in flight at a time
NextGuessRace ==
    \/ StartEvents(OneTask, OneUser)
    \/ GuessEvents(Tasks, OneUser)
    \/ PuzzleSteps

SpecGuessRace == Init /\ [][NextGuessRace]_vars

\* /waaduru and /kanjipuzzle with two start commands in flight at a time
NextStartRace ==
    \/ StartEvents(Tasks, OneUser)
    \/ \E t \in Tasks, c \in OneChannel : kanjipuzzle(t, c)
    \/ GuessEvents(OneTask, OneUser)
    \/ PuzzleSteps
    \/ KanjiPuzzleSteps

SpecStartRace == Init /\ [][NextStartRace]_vars

\* the steps of /waaduru daily that follow an await
DailySteps ==
    \/ \E t \in Tasks : get_daily_waaduru_word(t)
    \/ \E t \in Tasks, ok \in BOOLEAN : daily_word_response(t, ok)
    \/ \E t \in Tasks : waaduru_daily_created(t)

\* /waaduru daily of two users with two commands in flight at a time, on one day
NextDailyRace ==
    \/ \E t \in Tasks, c \in OneChannel, u \in Users : waaduru_daily(t, c, u)
    \/ DailySteps

SpecDailyRace == Init /\ [][NextDailyRace]_vars

\* the daily puzzles of two users in two channels, one event handled at a time: the
\* users start their puzzles and write guesses in either channel
NextDailyOwner ==
    \/ \E t \in OneTask, c \in Channels, u \in Users : waaduru_daily(t, c, u)
    \/ \E t \in OneTask, c \in Channels, u \in Users, m \in Guesses : on_message(t, c, u, m)
    \/ DailySteps
    \/ \E t \in Tasks, outcome \in {"deleted", "Forbidden"} : after_delete(t, outcome)
    \/ \E t \in Tasks, ok \in BOOLEAN : daily_validated(t, ok)
    \/ \E t \in Tasks : handler_returns(t)

SpecDailyOwner == Init /\ [][NextDailyOwner]_vars

\* no game of any kind is registered and no handler is at work
Quiet ==
    /\ \A c \in Channels :
          /\ active_games[c] = NoRef
          /\ active_waaduru_games[c] = NoRef
          /\ active_kanjipuzzle_games[c] = NoRef
    /\ \A u \in Users : active_daily_waaduru_games[u] = NoRef
    /\ \A t \in Tasks : tasks[t].pc = "idle"

\* one user playing one game at a time in one channel: a chain game against the bot,
\* a shared puzzle, a kanji puzzle or the daily puzzle is started when nothing is
\* registered; the messages are those of the chain game and the guesses
NextTerminal ==
    \/ \E c \in OneChannel : Quiet /\ shiritori1(c)
    \/ \E t \in OneTask, c \in OneChannel : Quiet /\ waaduru_random(t, c)
    \/ \E t \in OneTask, c \in OneChannel : Quiet /\ kanjipuzzle(t, c)
    \/ \E t \in OneTask, c \in OneChannel, u \in OneUser : Quiet /\ waaduru_daily(t, c, u)
    \/ \E t \in OneTask, c \in OneChannel, u \in OneUser, m \in Messages \cup Guesses :
          Typing(c) /\ on_message(t, c, u, m)
    \/ \E t \in Tasks, ok \in BOOLEAN : after_lookup_word(t, ok)
    \/ \E t \in Tasks : after_accepted(t)
    \/ \E t \in Tasks, ok \in BOOLEAN : after_find_bot_word(t, ok)
    \/ PuzzleSteps
    \/ KanjiPuzzleSteps

SpecTerminal == Init /\ [][NextTerminal]_vars

(***************************************************************************)
(* The guess engine on its own: check_guess and add_guess of one puzzle,   *)
(* called as the handlers call them (bot.py:1995, 2005-2011 and 2049,      *)
(* 2073-2078) for any answer get_random_jukugo can return and any two      *)
(* characters as a guess, those validate_jukugo_guess refuses included.    *)
(***************************************************************************)
MaxCalls == 2

\* the kanji of KRAD_MAP and one it has no entry for
EngineKanji == DOMAIN KRAD_MAP \cup {K_mei}

\* answer_word: two kanji of KRAD_MAP (the candidates of bot.py:1946-1953)
EngineAnswers == { << a, b >> : a \in DOMAIN KRAD_MAP, b \in DOMAIN KRAD_MAP }

\* guess_word: two characters, or one
EngineGuesses == { << a, b >> : a \in EngineKanji, b \in EngineKanji } \cup { << K_hi >> }

\* one shared puzzle in the channel, or one daily puzzle of the user, before a guess
InitEngine ==
    /\ active_games = [c \in Channels |-> NoRef]
    /\ games = << >>
    /\ active_kanjipuzzle_games = [c \in Channels |-> NoRef]
    /\ kanjipuzzle_games = << >>
    /\ today = 1
    /\ tasks = [t \in Tasks |-> Idle]
    /\ \E answer_word \in EngineAnswers :
          \/ /\ active_waaduru_games = [c \in Channels |-> IF c = "c1" THEN 1 ELSE NoRef]
             /\ waaduru_games = << WaaduruGame("c1", answer_word) >>
             /\ active_daily_waaduru_games = [u \in Users |-> NoRef]
             /\ daily_games = << >>
             /\ daily_waaduru_word = NoWordOfTheDay
          \/ /\ active_waaduru_games = [c \in Channels |-> NoRef]
             /\ waaduru_games = << >>
             /\ active_daily_waaduru_games = [u \in Users |-> IF u = "u1" THEN 1 ELSE NoRef]
             /\ daily_games = << DailyWaaduruGame("u1", answer_word, "c1") >>
             /\ daily_waaduru_word = [date |-> today, word |-> answer_word]

\* bot.py:1995, 2005-2011: the shared puzzle takes a guess
waaduru_engine(c, guess_word) ==
    /\ active_waaduru_games[c] # NoRef
    /\ LET game == waaduru_games[active_waaduru_games[c]]
           results == check_guess(game.answer_word, guess_word)
       IN  /\ ~is_game_over(game)
           /\ Len(game.guesses) < MaxCalls
           /\ waaduru_games' =
                  IF results = << >> THEN waaduru_games
                  ELSE [waaduru_games EXCEPT ![active_waaduru_games[c]] =
                           add_guess(game, guess_word, results)]
    /\ UNCHANGED <<chainVars, active_waaduru_games, dailyVars, kanjipuzzleVars, tasks>>

\* bot.py:2049, 2073-2078: the user's daily puzzle takes a guess
daily_engine(u, guess_word) ==
    /\ active_daily_waaduru_games[u] # NoRef
    /\ LET game == daily_games[active_daily_waaduru_games[u]]
           results == daily_check_guess(game.answer_word, guess_word)
       IN  /\ ~is_game_over(game)
           /\ Len(game.guesses) < MaxCalls
           /\ daily_games' =
                  IF results = << >> THEN daily_games
                  ELSE [daily_games EXCEPT ![active_daily_waaduru_games[u]] =
                           daily_add_guess(game, guess_word, results)]
    /\ UNCHANGED <<chainVars, waaduruVars, active_daily_waaduru_games, daily_waaduru_word,
                   today, kanjipuzzleVars, tasks>>

NextEngine ==
    \/ \E c \in OneChannel, guess_word \in EngineGuesses : waaduru_engine(c, guess_word)
    \/ \E u \in Users, guess_word \in EngineGuesses : daily_engine(u, guess_word)

SpecEngine == InitEngine /\ [][NextEngine]_vars

(***************************************************************************)
(* normalize_for_comparison on its own: each of two callers has one        *)
(* character, a code point of the hiragana block, of the katakana block or *)
(* outside both, and normalizes it, then the result, and so on.            *)
(***************************************************************************)
KanaInputs == (\h3040 .. \h30FF) \cup {\h0041, \h3001, K_hi}

\* a caller with the argument `kana`, before its first call
Caller(kana) == [Idle EXCEPT !.pc = "normalize", !.content = kana, !.kana = kana]

InitKana ==
    /\ active_games = [c \in Channels |-> NoRef]
    /\ games = << >>
    /\ active_waaduru_games = [c \in Channels |-> NoRef]
    /\ waaduru_games = << >>
    /\ active_daily_waaduru_games = [u \in Users |-> NoRef]
    /\ daily_games = << >>
    /\ active_kanjipuzzle_games = [c \in Channels |-> NoRef]
    /\ kanjipuzzle_games = << >>
    /\ daily_waaduru_word = NoWordOfTheDay
    /\ today = 1
    /\ \E x \in KanaInputs, y \in KanaInputs :
          tasks = [t \in Tasks |-> IF t = 1 THEN Caller(<<x>>) ELSE Caller(<<y>>)]

\* bot.py:280-287: caller t takes normalize_for_comparison of the value it has
normalized(t) ==
    /\ tasks[t].pc = "normalize"
    /\ tasks[t].index < MaxCalls
    /\ tasks' = [tasks EXCEPT ![t] =
            [@ EXCEPT !.last_kana = tasks[t].kana,
                      !.kana = normalize_for_comparison(tasks[t].kana),
                      !.index = @ + 1]]
    /\ UNCHANGED <<chainVars, puzzleVars>>

NextKana == \E t \in Tasks : normalized(t)

SpecKana == InitKana /\ [][NextKana]_vars

(***************************************************************************)
(* get_last_kana on its own: a caller has a text of up to MaxLen           *)
(* characters, katakana, hiragana, the elongation mark, the middle dot of  *)
(* the katakana block, a kanji or a Latin letter, and takes its last kana. *)
(***************************************************************************)
MaxLen == 4

TextChars == {\h30B3, \h30D2, ChouOn, \h3042, \h30FB, K_hi, \h0041}

Texts == UNION { [1 .. n -> TextChars] : n \in 0 .. MaxLen }

InitText ==
    /\ active_games = [c \in Channels |-> NoRef]
    /\ games = << >>
    /\ active_waaduru_games = [c \in Channels |-> NoRef]
    /\ waaduru_games = << >>
    /\ active_daily_waaduru_games = [u \in Users |-> NoRef]
    /\ daily_games = << >>
    /\ active_kanjipuzzle_games = [c \in Channels |-> NoRef]
    /\ kanjipuzzle_games = << >>
    /\ daily_waaduru_word = NoWordOfTheDay
    /\ today = 1
    /\ \E text \in Texts :
          tasks = [t \in Tasks |->
                      IF t = 1 THEN [Idle EXCEPT !.pc = "get_last_kana", !.content = text]
                      ELSE Idle]

\* bot.py:268-277: caller t takes get_last_kana of its text
last_kana_returned(t) ==
    /\ tasks[t].pc = "get_last_kana"
    /\ tasks' = [tasks EXCEPT ![t] =
            [@ EXCEPT !.pc = "returned", !.last_kana = get_last_kana(tasks[t].content)]]
    /\ UNCHANGED <<chainVars, puzzleVars>>

NextText == \E t \in Tasks : last_kana_returned(t)

SpecText == InitText /\ [][NextText]_vars

(***************************************************************************)
(* find_bot_word on its own: a vs-computer game waits for the computer's   *)
(* word for い; the service answers with the first n entries of a list     *)
(* that has more than ten nouns for い, among them one whose reading ends  *)
(* in ん, one that ends in んー, one that is no noun, one for あ and one   *)
(* written in katakana.                                                    *)
(***************************************************************************)
MaxResponse == 16

BotResponse ==
    [i \in 1 .. MaxResponse |->
        [japanese |->
            << [word |-> IF i = 2 THEN W_ie ELSE << >>,
                reading |->
                    IF i = 3 THEN << \h3044, HiraN >>
                    ELSE IF i = 7 THEN << \h3042, COMMON_KANA[i] >>
                    ELSE IF i = 9 THEN << \h30A4, COMMON_KANA[i] >>
                    ELSE IF i = 11 THEN << \h3044, HiraN, ChouOn >>
                    ELSE << \h3044, COMMON_KANA[i] >>] >>,
         noun |-> i # 5]]

\* the used words the game may have when the search returns
BotUsedWords ==
    SUBSET {W_ie, << \h3044, COMMON_KANA[1] >>, << \h3044, COMMON_KANA[MaxResponse] >>}

InitBotWord ==
    /\ active_games = [c \in Channels |-> IF c = "c1" THEN 1 ELSE NoRef]
    /\ active_waaduru_games = [c \in Channels |-> NoRef]
    /\ waaduru_games = << >>
    /\ active_daily_waaduru_games = [u \in Users |-> NoRef]
    /\ daily_games = << >>
    /\ active_kanjipuzzle_games = [c \in Channels |-> NoRef]
    /\ kanjipuzzle_games = << >>
    /\ daily_waaduru_word = NoWordOfTheDay
    /\ today = 1
    /\ \E n \in 0 .. MaxResponse, used_words \in BotUsedWords :
          /\ games = << [ShiritoriGame("c1", VS_BOT, << \h3044 >>, NoneStr)
                            EXCEPT !.used_words = used_words] >>
          /\ tasks = [t \in Tasks |->
                         IF t = 1
                         THEN [Idle EXCEPT !.pc = "search", !.kind = "chain",
                                           !.channel_id = "c1", !.game = 1,
                                           !.last_kana = << \h3044 >>,
                                           !.content = SubSeq(BotResponse, 1, n)]
                         ELSE Idle]

\* bot.py:605-668, 1458-1463: find_bot_word on the response the handler waits for,
\* and the computer's word taken into the game
bot_word_chosen(t, ok) ==
    /\ tasks[t].pc = "search"
    /\ LET tk == tasks[t]
           game == games[tk.game]
           c == IF ok THEN FirstTen(BotCandidates(tk.content, tk.last_kana, game.used_words))
                ELSE << >>
       IN  IF c = << >>
           THEN /\ tasks' = [tasks EXCEPT ![t] = [tk EXCEPT !.pc = "none_found"]]
                /\ UNCHANGED games
           ELSE \E i \in 1 .. Len(c) :
                   /\ tasks' = [tasks EXCEPT ![t] = [tk EXCEPT !.pc = "chosen"]]
                   /\ games' = [games EXCEPT ![tk.game] =
                                    [accept_word(game, c[i].word, c[i].reading) EXCEPT
                                        !.current_kana = get_last_kana(c[i].reading)]]
    /\ UNCHANGED <<active_games, puzzleVars>>

NextBotWord == \E t \in Tasks, ok \in BOOLEAN : bot_word_chosen(t, ok)

SpecBotWord == InitBotWord /\ [][NextBotWord]_vars

(***************************************************************************)
(* Properties of the chain game, checked under SpecChain.                  *)
(***************************************************************************)
\* a handler's step out of the await of lookup_word
LookupReturns(t) == tasks[t].pc = "lookup_word" /\ tasks'[t] # tasks[t]

\* the step of a handler changes no chain game and no registration
ChainUnchanged ==
    /\ active_games' = active_games
    /\ \A g \in DOMAIN games' : g \in DOMAIN games /\ games'[g] = games[g]

\* the command of a step that starts a chain game in the channel
StartCommand(c) == shiritori1(c) \/ shiritori2(c) \/ wordbasket(c)

\* C1: a channel has at most one chain game: the game registered for a channel is
\* the channel's, no step puts another game in the place of a registered one, and a
\* start command for a channel with a game changes neither the registry nor a game
C1_OneChainGamePerChannel ==
    /\ [](\A c \in Channels : active_games[c] # NoRef =>
              games[active_games[c]].channel_id = c)
    /\ [][\A c \in Channels : active_games[c] # NoRef =>
              /\ active_games'[c] \in {active_games[c], NoRef}
              /\ StartCommand(c) => (active_games' = active_games /\ games' = games)]_vars

\* C1: a channel whose game has taken a word, where any start command is refused
C1_Witness ==
    \E c \in Channels :
        /\ active_games[c] # NoRef
        /\ games[active_games[c]].chain_count > 0
        /\ games[active_games[c]].mode = WORD_BASKET
        /\ ENABLED StartCommand(c)

\* the dictionary has no noun that is written or read `word` with a reading whose first
\* kana, normalized, is the required kana
NoNounReading(word, required) ==
    \A i \in 1 .. Len(JISHO) : \A j \in 1 .. Len(JISHO[i].japanese) :
        LET jp == JISHO[i].japanese[j]
            reading == IF jp.reading # <<>> THEN jp.reading ELSE word
        IN  ~ /\ JISHO[i].noun
              /\ word \in {jp.word, jp.reading}
              /\ normalize_for_comparison(get_first_kana(reading))
                     = normalize_for_comparison(required)

\* C5: a submission without a noun reading that starts with the game's required kana
\* is answered with the question mark and changes no game and no registration
C5_NoMatchRejected ==
    [][\A t \in Tasks :
          LookupReturns(t)
          /\ NoNounReading(tasks[t].content, games[tasks[t].game].current_kana)
          => /\ tasks'[t].pc = "react" /\ tasks'[t].emoji = "question"
             /\ ChainUnchanged]_vars

\* C5: a noun of the dictionary is refused for its first kana in a game that goes on
C5_Witness ==
    \E t \in Tasks, c \in Channels :
        /\ tasks[t].pc = "react" /\ tasks[t].emoji = "question"
        /\ tasks[t].content \in {R_ai, W_ie}
        /\ active_games[c] # NoRef
        /\ games[active_games[c]].chain_count > 0
        /\ NoNounReading(tasks[t].content, games[active_games[c]].current_kana)

\* the handler t waits for the lookup of a noun the dictionary has for the kana asked
\* for: r is what the lookup yields unless the request fails
Found(t) == lookup_word(TRUE, tasks[t].content, tasks[t].kana)

\* the last kana of a reading, normalized
NormalizedLast(reading) == normalize_for_comparison(get_last_kana(reading))

\* the lookup of handler t yields a noun whose last kana is not the end kana of its
\* word basket
EndKanaMismatch(t) ==
    /\ games[tasks[t].game].mode = WORD_BASKET
    /\ Found(t).valid
    /\ NormalizedLast(Found(t).reading)
           # normalize_for_comparison(games[tasks[t].game].end_kana)

\* C6: in a word basket a noun whose last kana is not the required end kana is refused
\* with the cross, also when the word was used before, and nothing changes (a lookup
\* that fails is answered with the question mark)
C6_EndKanaChecked ==
    [][\A t \in Tasks :
          LookupReturns(t) /\ EndKanaMismatch(t)
          => /\ tasks'[t].pc = "react" /\ tasks'[t].emoji \in {"cross", "question"}
             /\ ChainUnchanged]_vars

\* C6: a used word that misses the end kana gets the cross, not the repeat mark
C6_Witness ==
    \E t \in Tasks, c \in Channels :
        /\ tasks[t].pc = "react" /\ tasks[t].emoji = "cross"
        /\ active_games[c] # NoRef
        /\ tasks[t].content \in games[active_games[c]].used_words

\* the lookup of handler t yields a noun that was used, as written or as read
AlreadyUsed(t) ==
    /\ Found(t).valid
    /\ \/ tasks[t].content \in games[tasks[t].game].used_words
       \/ Found(t).reading \in games[tasks[t].game].used_words

\* C7: a word whose surface form or reading is among the used words is refused without
\* a change, and a word that is taken puts both its surface form and its reading there
C7_UsedWordRejected ==
    [][\A t \in Tasks :
          LookupReturns(t) =>
            /\ AlreadyUsed(t) =>
                 /\ tasks'[t].pc = "react"
                 /\ tasks'[t].emoji \in {"repeat", "cross", "question"}
                 /\ ChainUnchanged
            /\ tasks'[t].pc = "accepted" =>
                 {tasks[t].content, Found(t).reading}
                     \subseteq games'[tasks[t].game].used_words]_vars

\* C7: the reading あい is refused as used after the word was played as 愛
C7_Witness ==
    \E t \in Tasks, c \in Channels :
        /\ tasks[t].pc = "react" /\ tasks[t].emoji = "repeat"
        /\ tasks[t].content = R_ai
        /\ active_games[c] # NoRef
        /\ games[active_games[c]].last_word = W_ai

\* the lookup of handler t yields an unused noun with the last kana ん, outside word
\* basket
TerminalKana(t) ==
    /\ games[tasks[t].game].mode # WORD_BASKET
    /\ Found(t).valid
    /\ ~AlreadyUsed(t)
    /\ NormalizedLast(Found(t).reading) = <<HiraN>>

\* C8: an unused noun that ends in ん takes the channel's game out of the registry
\* (unless the lookup fails), and while a channel has no game and no handler is at
\* work a step changes nothing or is the start of a game
C8_TerminalKanaEndsGame ==
    /\ [][\A t \in Tasks :
             LookupReturns(t) /\ TerminalKana(t)
             => \/ tasks'[t].emoji = "question" /\ ChainUnchanged
                \/ /\ tasks'[t].pc \in {"react", "raised"}
                   /\ active_games'[tasks[t].channel_id] = NoRef]_vars
    /\ [][\A c \in OneChannel :
             active_games[c] = NoRef /\ (\A t \in Tasks : tasks[t].pc = "idle")
             => \/ active_games'[c] # NoRef /\ games'[active_games'[c]].chain_count = 0
                \/ UNCHANGED vars]_vars

\* C8: the handler of 案 (あん) has ended the game of its channel
C8_Witness ==
    \E t \in Tasks :
        /\ tasks[t].pc = "react" /\ tasks[t].emoji = "skull"
        /\ tasks[t].content \in {W_an, R_an}
        /\ \A c \in Channels : active_games[c] = NoRef

\* C9: a word basket's start kana and end kana differ, in every game there is
C9_StartDiffersFromEnd ==
    \A g \in DOMAIN games :
        games[g].mode = WORD_BASKET => games[g].current_kana # games[g].end_kana

\* C9: a word basket that has taken a word and has its next challenge
C9_Witness ==
    \E g \in DOMAIN games :
        /\ games[g].mode = WORD_BASKET
        /\ games[g].chain_count > 0
        /\ games[g].scores # << >>

\* the step in which word basket g draws its next challenge
Redraws(g) ==
    /\ g \in DOMAIN games /\ g \in DOMAIN games'
    /\ games[g].mode = WORD_BASKET
    /\ games'[g].scores # games[g].scores

\* C10 as stated: after a word is taken, the new start kana is not the old start kana
\* and the new end kana is not the old end kana
C10_BothChange ==
    [][\A g \in GameIds :
          Redraws(g) => /\ games'[g].current_kana # games[g].current_kana
                        /\ games'[g].end_kana # games[g].end_kana]_vars

\* C10 as amended: after a word is taken, the start kana is one of COMMON_KANA and the
\* end kana is one of COMMON_KANA other than the new start kana
C10_BothRedrawn ==
    [][\A g \in GameIds :
          Redraws(g) =>
            /\ \E i \in 1 .. Len(COMMON_KANA) : games'[g].current_kana = <<COMMON_KANA[i]>>
            /\ \E i \in 1 .. Len(COMMON_KANA) : games'[g].end_kana = <<COMMON_KANA[i]>>
            /\ games'[g].end_kana # games'[g].current_kana]_vars

\* C10: a word basket whose new start kana is the first kana of the word just taken,
\* that is, the start kana it had before
C10_Witness ==
    \E g \in DOMAIN games :
        /\ games[g].mode = WORD_BASKET
        /\ games[g].chain_count > 0
        /\ DOMAIN games[g].scores # {}
        /\ games[g].current_kana
               = normalize_for_comparison(get_first_kana(games[g].last_reading))

\* a handler's step out of the await of find_bot_word, and its game
BotReturns(t) == tasks[t].pc = "find_bot_word" /\ tasks'[t] # tasks[t]

\* the step of handler t puts a word of the computer into its game
BotPlayed(t) ==
    /\ tasks[t].game \in DOMAIN games'
    /\ games'[tasks[t].game].chain_count # games[tasks[t].game].chain_count

\* the games a handler has taken a human's word into, the computer's answer pending
\* or found missing
InTurn ==
    { tasks[t].game : t \in { u \in Tasks :
          tasks[u].pc \in {"accepted", "find_bot_word"} \/ tasks[u].emoji = "win" } }

\* C11: in a vs-computer game the human's word and then the computer's word each add
\* the word and its reading to the used words and one to the chain count; the
\* computer's reading starts with the last kana of the human's reading, and the turn
\* ends with last_word, last_reading the computer's and current_kana its last kana
C11_VsBotTurn ==
    /\ [][\A t \in Tasks :
             LET g == tasks[t].game IN
             /\ LookupReturns(t) /\ tasks'[t].pc = "accepted" /\ games[g].mode = VS_BOT =>
                  /\ games'[g].used_words
                         = games[g].used_words \cup {tasks[t].content, Found(t).reading}
                  /\ games'[g].chain_count = games[g].chain_count + 1
             /\ tasks[t].pc = "accepted" /\ tasks'[t].pc = "find_bot_word" =>
                  /\ games'[g].used_words = games[g].used_words
                  /\ games'[g].chain_count = games[g].chain_count
                  /\ games'[g].current_kana = get_last_kana(games[g].last_reading)
             /\ BotReturns(t) /\ BotPlayed(t) =>
                  /\ normalize_for_comparison(get_first_kana(games'[g].last_reading))
                         = normalize_for_comparison(get_last_kana(games[g].last_reading))
                  /\ games'[g].used_words
                         = games[g].used_words
                               \cup {games'[g].last_word, games'[g].last_reading}
                  /\ {games'[g].last_word, games'[g].last_reading}
                         \cap games[g].used_words = {}
                  /\ games'[g].chain_count = games[g].chain_count + 1
                  /\ games'[g].current_kana = get_last_kana(games'[g].last_reading)]_vars
    /\ [](\A g \in DOMAIN games :
             games[g].mode = VS_BOT => (games[g].chain_count % 2 = 1 <=> g \in InTurn))

\* C11: start あ, the human plays 愛 (あい), the computer 家 (いえ): two words, next え
C11_Witness ==
    \E c \in Channels :
        /\ active_games[c] # NoRef
        /\ \A t \in Tasks : tasks[t].pc = "idle"
        /\ games[active_games[c]].mode = VS_BOT
        /\ games[active_games[c]].chain_count = 2
        /\ games[active_games[c]].used_words = {W_ai, R_ai, W_ie, R_ie}
        /\ games[active_games[c]].last_word = W_ie
        /\ games[active_games[c]].current_kana = << \h3048 >>

\* C12: when the computer has no word for the last kana of the human's word, or its
\* search fails, the step takes the game out of the registry and leaves the game as
\* the human's word left it: the chain one longer, no other word among the used words
C12_HumanWins ==
    [][\A t \in Tasks :
          LET g == tasks[t].game IN
          BotReturns(t) =>
            /\ BotCandidates(JISHO, games[g].current_kana, games[g].used_words) = << >>
                   => ~BotPlayed(t)
            /\ ~BotPlayed(t) =>
                   /\ \A c \in Channels : active_games'[c] # g
                   /\ active_games'[tasks[t].channel_id] = NoRef
                   /\ g \in DOMAIN games' => games'[g] = games[g]
                   /\ games[g].chain_count % 2 = 1
                   /\ games[g].last_reading \in games[g].used_words]_vars

\* C12: the human's エア (えあ) leaves the computer without a word for あ: the game,
\* out of the registry, has one word more and only the human's words among the used
C12_Witness ==
    \E t \in Tasks :
        /\ tasks[t].pc = "react" /\ tasks[t].emoji = "win"
        /\ \A c \in Channels : active_games[c] = NoRef
        /\ games[tasks[t].game].chain_count = 1
        /\ games[tasks[t].game].used_words
               = {games[tasks[t].game].last_word, games[tasks[t].game].last_reading}

\* the points of player p in a table of scores (scores.get(p, 0))
PointsOf(scores, p) == IF p \in DOMAIN scores THEN scores[p] ELSE 0

\* the step of handler t out of the await of its check mark reaction
ReactionSent(t) == tasks[t].pc = "accepted" /\ tasks'[t] # tasks[t]

\* C13: in a game of several players the step after a word was accepted sets the start
\* kana to the last kana of the word's reading and gives the submitter one point and
\* nobody else any; no other step (a refusal, the acceptance itself, a command) changes
\* the scores of such a game
C13_MultiplayerPoint ==
    [][/\ \A t \in Tasks :
            LookupReturns(t) /\ tasks'[t].pc = "accepted" =>
              /\ tasks'[t].last_kana = get_last_kana(Found(t).reading)
              /\ tasks'[t].author = tasks[t].author
       /\ \A t \in Tasks :
            LET g == tasks[t].game IN
            ReactionSent(t) /\ games[g].mode = MULTIPLAYER =>
              /\ g \in DOMAIN games'
              /\ games'[g].current_kana = tasks[t].last_kana
              /\ \A p \in Users :
                    PointsOf(games'[g].scores, p) =
                        PointsOf(games[g].scores, p) + (IF p = tasks[t].author THEN 1 ELSE 0)
       /\ \A g \in DOMAIN games \cap DOMAIN games' :
            games[g].mode = MULTIPLAYER /\ games'[g].scores # games[g].scores =>
              \E t \in Tasks : ReactionSent(t) /\ tasks[t].game = g]_vars

\* C13: 愛 by one player and 家 by the other: a point each, the next word starts with え
C13_Witness ==
    \E c \in Channels :
        /\ active_games[c] # NoRef
        /\ games[active_games[c]].mode = MULTIPLAYER
        /\ games[active_games[c]].scores = [p \in Users |-> 1]
        /\ games[active_games[c]].current_kana = << \h3048 >>
        /\ \E t \in Tasks : tasks[t].emoji = "point"

(***************************************************************************)
(* Properties of the compound puzzles.                                     *)
(***************************************************************************)
\* the puzzle takes no more guesses
Terminal(game) == game.solved \/ Len(game.guesses) >= max_guesses

\* no puzzle of the heap has more guesses than the budget
WithinBudget(heap) == \A g \in DOMAIN heap : Len(heap[g].guesses) <= max_guesses

\* the step changes no puzzle of the heap that is terminal
TerminalKept(heap, heap2) ==
    \A g \in DOMAIN heap \cap DOMAIN heap2 : Terminal(heap[g]) => heap2[g] = heap[g]

\* the step appends no guess to a puzzle of the heap that is solved
SolvedKept(heap, heap2) ==
    \A g \in DOMAIN heap \cap DOMAIN heap2 :
        heap[g].solved => heap2[g].guesses = heap[g].guesses

\* C2: with one guess handled at a time, a shared or daily puzzle never has more than
\* max_guesses guesses, and a step changes nothing of a puzzle that is solved or has
\* used its guesses
C2_SerialGuessBudget ==
    /\ [](WithinBudget(waaduru_games) /\ WithinBudget(daily_games))
    /\ [][/\ TerminalKept(waaduru_games, waaduru_games')
          /\ TerminalKept(daily_games, daily_games')]_vars

\* C2: a user's daily puzzle, still registered, has used its five guesses while the
\* shared puzzle of its channel is open for a guess
C2_Witness ==
    \E u \in Users, c \in Channels :
        /\ active_daily_waaduru_games[u] # NoRef
        /\ Len(daily_games[active_daily_waaduru_games[u]].guesses) = max_guesses
        /\ ~daily_games[active_daily_waaduru_games[u]].solved
        /\ active_waaduru_games[c] # NoRef
        /\ Len(waaduru_games[active_waaduru_games[c]].guesses) = max_guesses - 1

\* C3: with two guesses in flight, a shared or daily puzzle never has more than
\* max_guesses guesses and no guess is appended to a solved puzzle
C3_ConcurrentGuessBudget ==
    /\ [](WithinBudget(waaduru_games) /\ WithinBudget(daily_games))
    /\ [][/\ SolvedKept(waaduru_games, waaduru_games')
          /\ SolvedKept(daily_games, daily_games')]_vars

\* no step puts another object in the place of a registered one
NeverReplaced(reg, reg2) ==
    \A k \in DOMAIN reg : reg[k] # NoRef => reg2[k] \in {reg[k], NoRef}

\* C4: with two start commands in flight, no step replaces the registered puzzle of a
\* channel or of a user by another puzzle
C4_ConcurrentStartExclusive ==
    [][/\ NeverReplaced(active_waaduru_games, active_waaduru_games')
       /\ NeverReplaced(active_kanjipuzzle_games, active_kanjipuzzle_games')
       /\ NeverReplaced(active_daily_waaduru_games, active_daily_waaduru_games')]_vars

(***************************************************************************)
(* Properties of the guess engine, checked under SpecEngine.               *)
(***************************************************************************)
\* both positions of a feedback are green
AllGreen(results) == \A i \in 1 .. 2 : results[i].result = GREEN

\* in every puzzle of the heap, a recorded guess equal to the answer has two greens and
\* has solved the puzzle, and a solved puzzle has the answer as its last guess
SolvedByAnswer(heap) ==
    \A g \in DOMAIN heap :
        LET game == heap[g] IN
        /\ \A k \in 1 .. Len(game.guesses) :
               game.guesses[k].word = game.answer_word =>
                   AllGreen(game.guesses[k].results) /\ game.solved
        /\ game.solved =>
               /\ game.guesses # << >>
               /\ game.guesses[Len(game.guesses)].word = game.answer_word

\* C14: a guess equal to the answer is green at both positions and solves the puzzle,
\* and a puzzle is solved by no other guess
C14_AnswerSolves == [](SolvedByAnswer(waaduru_games) /\ SolvedByAnswer(daily_games))

\* C14: a shared puzzle solved by its second guess after a first that shares the first
\* kanji with the answer
C14_Witness ==
    \E g \in DOMAIN waaduru_games :
        /\ waaduru_games[g].solved
        /\ Len(waaduru_games[g].guesses) = 2
        /\ waaduru_games[g].guesses[1].word[1] = waaduru_games[g].answer_word[1]
        /\ waaduru_games[g].guesses[1].word # waaduru_games[g].answer_word

\* in every puzzle of the heap, a recorded guess is green at a position exactly where
\* it has the answer's kanji of that position, and yellow exactly where it has not but
\* has the answer's kanji of the other position
GreenYellowRule(heap) ==
    \A g \in DOMAIN heap :
        LET game == heap[g] IN
        \A k \in 1 .. Len(game.guesses), i \in 1 .. 2 :
            LET word == game.guesses[k].word
                result == game.guesses[k].results[i].result
            IN  /\ result = GREEN <=> word[i] = game.answer_word[i]
                /\ result = YELLOW <=>
                       word[i] # game.answer_word[i] /\ word[i] = game.answer_word[3 - i]

\* C15: green and yellow follow the rule in the shared and in the daily puzzle, and the
\* feedback a puzzle of either class recorded is the feedback the other class computes
\* for the same answer and guess
C15_GreenYellow ==
    [](/\ GreenYellowRule(waaduru_games) /\ GreenYellowRule(daily_games)
       /\ \A g \in DOMAIN waaduru_games :
             \A k \in 1 .. Len(waaduru_games[g].guesses) :
                 waaduru_games[g].guesses[k].results =
                     daily_check_guess(waaduru_games[g].answer_word,
                                       waaduru_games[g].guesses[k].word)
       /\ \A g \in DOMAIN daily_games :
             \A k \in 1 .. Len(daily_games[g].guesses) :
                 daily_games[g].guesses[k].results =
                     check_guess(daily_games[g].answer_word, daily_games[g].guesses[k].word))

\* C15: a daily puzzle whose guess has the answer's two different kanji in the wrong
\* order (two yellows), after a guess with one kanji in place
C15_Witness ==
    \E g \in DOMAIN daily_games :
        /\ Len(daily_games[g].guesses) = 2
        /\ daily_games[g].guesses[1].results[1].result = GREEN
        /\ daily_games[g].guesses[1].results[2].result # GREEN
        /\ \A i \in 1 .. 2 : daily_games[g].guesses[2].results[i].result = YELLOW

\* in every puzzle of the heap, a recorded guess is orange at a position exactly where
\* green and yellow are ruled out and the kanji shares a radical with the answer's
\* kanji of some position, the feedback then holds for exactly those answer positions
\* the radicals shared with them, and the position is gray exactly where green and
\* yellow are ruled out and no radical is shared
OrangeGrayRule(heap) ==
    \A g \in DOMAIN heap :
        LET game == heap[g] IN
        \A k \in 1 .. Len(game.guesses), i \in 1 .. 2 :
            LET guess_kanji == game.guesses[k].word[i]
                feedback == game.guesses[k].results[i]
                Neither == \A j \in 1 .. 2 : guess_kanji # game.answer_word[j]
                Share(p) == krad_get(guess_kanji) \cap krad_get(game.answer_word[p + 1])
                Sharing == { p \in {0, 1} : Share(p) # {} }
            IN  /\ feedback.result \in {GREEN, YELLOW, ORANGE, GRAY}
                /\ feedback.result = ORANGE <=> Neither /\ Sharing # {}
                /\ feedback.result = GRAY <=> Neither /\ Sharing = {}
                /\ DOMAIN feedback.shared = (IF feedback.result = ORANGE THEN Sharing ELSE {})
                /\ \A p \in DOMAIN feedback.shared : feedback.shared[p] = Share(p)
                /\ guess_kanji \notin DOMAIN KRAD_MAP => feedback.result = GRAY

\* C16: orange and gray follow the rule in the shared and in the daily puzzle, and a
\* kanji without an entry in the radical index is gray
C16_OrangeGray == [](OrangeGrayRule(waaduru_games) /\ OrangeGrayRule(daily_games))

\* C16: 木明 for the answer 日本: 木 is orange for the 木 it shares with the second kanji of
\* the answer only, 明 has no entry in the index and is gray
C16_Witness ==
    \E g \in DOMAIN waaduru_games :
        /\ waaduru_games[g].answer_word = W_nihon
        /\ Len(waaduru_games[g].guesses) = 1
        /\ waaduru_games[g].guesses[1].word = << K_ki, K_mei >>
        /\ waaduru_games[g].guesses[1].results[1] =
               [result |-> ORANGE, shared |-> (1 :> {K_ki})]
        /\ waaduru_games[g].guesses[1].results[2].result = GRAY

\* the radicals the last recorded guess of the puzzle shares, at its orange positions,
\* with the answer's kanji at position p
OrangeShare(game, p) ==
    LET last == game.guesses[Len(game.guesses)] IN
    UNION { krad_get(last.word[i]) \cap krad_get(game.answer_word[p + 1]) :
              i \in { j \in 1 .. 2 : last.results[j].result = ORANGE } }

\* a step that records a guess in a puzzle of the heap adds to each of the two sets of
\* discovered radicals the radicals the orange positions of the guess share with that
\* answer position, and nothing else; no step takes a radical out of a set
HintGrows(heap, heap2) ==
    \A g \in DOMAIN heap \cap DOMAIN heap2 :
        \A p \in {0, 1} :
            /\ heap[g].discovered_radicals[p] \subseteq heap2[g].discovered_radicals[p]
            /\ heap2[g].discovered_radicals[p] =
                   IF heap2[g].guesses = heap[g].guesses
                   THEN heap[g].discovered_radicals[p]
                   ELSE heap[g].discovered_radicals[p] \cup OrangeShare(heap2[g], p)

\* C17: the discovered radicals of a shared or daily puzzle only grow, by the radicals
\* that the orange positions of a recorded guess share with each answer position;
\* green, yellow and gray positions add nothing
C17_HintsOnlyGrow ==
    [][HintGrows(waaduru_games, waaduru_games') /\ HintGrows(daily_games, daily_games')]_vars

\* C17: the answer 本日: a first guess found 木 for the first position, a second guess,
\* without an orange position, left the hints as they were
C17_Witness ==
    \E g \in DOMAIN daily_games :
        /\ daily_games[g].answer_word = W_honjitsu
        /\ Len(daily_games[g].guesses) = 2
        /\ daily_games[g].discovered_radicals = (0 :> {K_ki} @@ 1 :> {})
        /\ \A i \in 1 .. 2 : daily_games[g].guesses[2].results[i].result # ORANGE

\* the tiers of the guesses of a puzzle and nothing else of it: a puzzle with the same
\* number of guesses, the same tier at every position, blank words, no shared radicals,
\* and solved if a guess is green at both positions
TiersOnly(game) ==
    LET tiers == [k \in 1 .. Len(game.guesses) |->
                     [word |-> << 0, 0 >>,
                      results |-> [i \in 1 .. 2 |->
                                      [result |-> game.guesses[k].results[i].result,
                                       shared |-> NoShare]]]]
    IN  [guesses |-> tiers,
         solved |-> \E k \in 1 .. Len(tiers) : AllGreen(tiers[k].results)]

\* C21: the public embed of a daily puzzle is the embed of its tiers alone: what is
\* shown for a puzzle is what is shown for any puzzle with the same owner name and the
\* same tiers, whatever the guessed words and the answer are
C21_PublicEmbedHidesGuesses ==
    [](\A g \in DOMAIN daily_games, user_name \in Users :
          create_daily_public_embed(daily_games[g], user_name, today) =
              create_daily_public_embed(TiersOnly(daily_games[g]), user_name, today))

\* C21: two guesses are on the public embed of a daily puzzle, the first with an orange
\* and a gray square, the second with two yellow squares, above three white lines
C21_Witness ==
    \E g \in DOMAIN daily_games :
        create_daily_public_embed(daily_games[g], "u1", today).description =
            << << \h1F7E7, \h2B1B >>, << \h1F7E8, \h1F7E8 >>,
               << \h2B1C, \h2B1C >>, << \h2B1C, \h2B1C >>, << \h2B1C, \h2B1C >> >>

(***************************************************************************)
(* add_guess on a terminal puzzle, checked under SpecGuessRace.            *)
(***************************************************************************)
\* a step leaves the guesses, the solved flag and the discovered radicals of every
\* puzzle of the heap that is solved or has used its guesses as they are
TerminalRejects(heap, heap2) ==
    \A g \in DOMAIN heap \cap DOMAIN heap2 :
        is_game_over(heap[g]) =>
            /\ heap2[g].guesses = heap[g].guesses
            /\ heap2[g].solved = heap[g].solved
            /\ heap2[g].discovered_radicals = heap[g].discovered_radicals

\* C18: add_guess for a puzzle that is solved or has max_guesses guesses appends
\* nothing and changes neither the solved flag nor the discovered radicals
C18_TerminalRejects ==
    [][/\ TerminalRejects(waaduru_games, waaduru_games')
       /\ TerminalRejects(daily_games, daily_games')]_vars

(***************************************************************************)
(* The word of the day, one call at a time, checked under SpecPuzzleSerial.*)
(***************************************************************************)
\* a word is cached for the current date
Cached == daily_waaduru_word.date = today /\ daily_waaduru_word.word # NoneStr

\* C19: a call of get_daily_waaduru_word that finds a word cached for the current date
\* returns that word without a request to the service; a call that got its word from
\* the service has cached it for its date; and a word cached for the current date
\* stays cached as long as the date does, so that two calls that follow one another on
\* one date return the same word
C19_CachedWordOfTheDay ==
    [][/\ \A t \in Tasks :
            tasks[t].pc = "defer" /\ tasks'[t] # tasks[t] /\ Cached =>
              /\ tasks'[t].pc = "followup"
              /\ tasks'[t].content = daily_waaduru_word.word
              /\ daily_waaduru_word' = daily_waaduru_word
       /\ \A t \in Tasks :
            tasks[t].pc = "request" /\ tasks'[t].pc = "followup" =>
              daily_waaduru_word' = [date |-> tasks[t].date, word |-> tasks'[t].content]
       /\ Cached /\ today' = today => daily_waaduru_word' = daily_waaduru_word]_vars

\* C19: on the first day the service failed for 日 and 木本 was cached and given to the
\* first player; the call for the second player returned 木本 from the cache, while
\* the service would now offer 日本
C19_Witness ==
    /\ today = 1
    /\ daily_waaduru_word = [date |-> 1, word |-> W_mokuhon]
    /\ active_daily_waaduru_games["u1"] # NoRef
    /\ daily_games[active_daily_waaduru_games["u1"]].answer_word = W_mokuhon
    /\ \E t \in Tasks :
          /\ tasks[t].pc = "followup" /\ tasks[t].author = "u2"
          /\ tasks[t].content = W_mokuhon
    /\ seeded_choice(1, JukugoCandidates(jisho_search(shuffled_kanji(1)[1]))) = W_nihon

(***************************************************************************)
(* The word of the day with commands in flight, checked under              *)
(* SpecDailyRace.                                                          *)
(***************************************************************************)
\* C20: the daily puzzles of the users, all created on the one date, have the same
\* answer, also when the first commands of the day are in flight together and the
\* service fails for a kanji in one of the requests
C20_OneWordForAll ==
    \A u, v \in Users :
        active_daily_waaduru_games[u] # NoRef /\ active_daily_waaduru_games[v] # NoRef =>
            daily_games[active_daily_waaduru_games[u]].answer_word =
                daily_games[active_daily_waaduru_games[v]].answer_word

(***************************************************************************)
(* The owner of a daily puzzle, checked under SpecDailyOwner.              *)
(***************************************************************************)
\* the handler t works on a message that the owner of the daily puzzle g wrote in the
\* channel the puzzle was started in
OwnersGuess(t, g) ==
    /\ tasks[t].kind = "daily" /\ tasks[t].game = g
    /\ tasks[t].author = daily_games[g].user_id
    /\ tasks[t].channel_id = daily_games[g].channel_id

\* C22: a step that changes the guesses, the solved flag or the discovered radicals of
\* a daily puzzle is a step of a handler of a message its owner wrote in the puzzle's
\* channel; a message of another user or in another channel changes no daily puzzle
C22_OnlyOwnerInChannel ==
    [][\A g \in DOMAIN daily_games \cap DOMAIN daily_games' :
          \/ /\ daily_games'[g].guesses = daily_games[g].guesses
             /\ daily_games'[g].solved = daily_games[g].solved
             /\ daily_games'[g].discovered_radicals = daily_games[g].discovered_radicals
          \/ \E t \in Tasks : OwnersGuess(t, g) /\ tasks'[t] # tasks[t]]_vars

\* C22: u1 has a daily puzzle in c1 with a guess, u2 one in c2 without, and a guess is
\* being handled that u2 wrote in c2 for the own puzzle
C22_Witness ==
    /\ active_daily_waaduru_games["u1"] # NoRef /\ active_daily_waaduru_games["u2"] # NoRef
    /\ daily_games[active_daily_waaduru_games["u1"]].channel_id = "c1"
    /\ Len(daily_games[active_daily_waaduru_games["u1"]].guesses) = 1
    /\ daily_games[active_daily_waaduru_games["u2"]].channel_id = "c2"
    /\ daily_games[active_daily_waaduru_games["u2"]].guesses = << >>
    /\ \E t \in Tasks : tasks[t].pc = "validate" /\ tasks[t].author = "u2"
                          /\ tasks[t].channel_id = "c2"

\* the handler t has taken a message as a guess for the daily puzzle of its author
DailyGuess(t) == tasks[t].kind = "daily" /\ tasks[t].pc \in {"delete", "validate"}

\* C23: the handler of a daily guess first asks for the message to be withdrawn and
\* starts the validation only when that request has returned; it does so for every
\* guess it takes, before it is known whether the guess is a noun of the dictionary,
\* and the puzzle takes a guess only from a handler that has come this way
C23_WithdrawnBeforeValidation ==
    [][\A t \in Tasks :
          /\ ~DailyGuess(t) /\ DailyGuess(t)' => tasks'[t].pc = "delete"
          /\ tasks'[t].kind = "daily" /\ tasks'[t].pc = "validate" =>
                 tasks[t].pc \in {"delete", "validate"}
          /\ tasks[t].pc = "delete" /\ tasks'[t].pc = "validate" =>
                 tasks'[t].content = tasks[t].content
          /\ \A g \in DOMAIN daily_games \cap DOMAIN daily_games' :
                 tasks[t].game = g /\ tasks[t].kind = "daily"
                 /\ daily_games'[g].guesses # daily_games[g].guesses
                 /\ tasks'[t] # tasks[t]
                 => tasks[t].pc = "validate"]_vars

\* C23: the message 本日, which the dictionary has no noun for, has been withdrawn and
\* its validation is about to start
C23_Witness ==
    \E t \in Tasks :
        /\ tasks[t].kind = "daily" /\ tasks[t].pc = "validate"
        /\ tasks[t].deleted
        /\ tasks[t].content = W_honjitsu
        /\ ~validate_jukugo_guess(TRUE, tasks[t].content)

(***************************************************************************)
(* The end of a game, checked under SpecTerminal.                          *)
(***************************************************************************)
\* no handler is at work
Settled == \A t \in Tasks : tasks[t].pc = "idle"

\* the registry holds no puzzle that is solved or has used its guesses
NoneOver(registry, heap) ==
    \A k \in DOMAIN registry : registry[k] # NoRef => ~Terminal(heap[registry[k]])

\* the step ends a chain game: an unused noun in ん, or no word of the computer
ChainEnds(t) ==
    \/ LookupReturns(t) /\ TerminalKana(t) /\ tasks'[t].emoji # "question"
    \/ BotReturns(t) /\ ~BotPlayed(t)

\* the chain game, the shared puzzle and the kanji puzzle leave their registries at
\* their terminal outcome: the chain game in the terminal step, the puzzles in the
\* step after the reaction, so that no finished puzzle is registered once the handler
\* has returned
EndedGamesLeave ==
    /\ [][\A t \in Tasks : ChainEnds(t) => active_games'[tasks[t].channel_id] = NoRef]_vars
    /\ [][\A t \in Tasks : tasks[t].pc = "pop" /\ tasks'[t].pc # "pop" =>
              /\ active_waaduru_games'[tasks[t].channel_id] = NoRef
              /\ active_kanjipuzzle_games'[tasks[t].channel_id] = NoRef]_vars
    /\ [](/\ NoneOver(active_waaduru_games, waaduru_games)
              \/ \E t \in Tasks : tasks[t].pc = "pop" /\ tasks[t].kind = "waaduru"
          /\ NoneOver(active_kanjipuzzle_games, kanjipuzzle_games)
              \/ \E t \in Tasks : tasks[t].pc = "pop" /\ tasks[t].kind = "kanjipuzzle")

Leaves(registry, registry2, k, g) == registry[k] = g /\ g # NoRef /\ registry2[k] # g

\* C25: a registered game leaves its registry only in the step of the end command for
\* its key or in the step of its own terminal outcome: a chain game in the step of
\* /endgame for its channel or of a handler of this game that ends it, a puzzle in
\* the step of /endwaaduru for its channel or when it is solved or out of guesses
C25_NoImplicitExpiry ==
    [][/\ \A c \in Channels : \A g \in DOMAIN games :
             Leaves(active_games, active_games', c, g)
             => \/ endgame(c)
                \/ \E t \in Tasks : tasks[t].game = g /\ ChainEnds(t)
       /\ \A c \in Channels : \A g \in DOMAIN waaduru_games :
             Leaves(active_waaduru_games, active_waaduru_games', c, g)
             => endwaaduru(c) \/ Terminal(waaduru_games[g])
       /\ \A c \in Channels : \A g \in DOMAIN kanjipuzzle_games :
             Leaves(active_kanjipuzzle_games, active_kanjipuzzle_games', c, g)
             => Terminal(kanjipuzzle_games[g])
       /\ \A u \in Users : \A g \in DOMAIN daily_games :
             Leaves(active_daily_waaduru_games, active_daily_waaduru_games', u, g)
             => Terminal(daily_games[g])]_vars

(***************************************************************************)
(* Failures of the lookup service.                                         *)
(***************************************************************************)
\* the step of handler t out of a lookup whose request failed
LookupFails(t) ==
    \/ after_lookup_word(t, FALSE)
    \/ waaduru_validated(t, FALSE)
    \/ daily_validated(t, FALSE)
    \/ kanjipuzzle_validated(t, FALSE)

\* the step changes no game of the heap
SameGames(heap, heap2) == \A g \in DOMAIN heap2 : g \in DOMAIN heap /\ heap2[g] = heap[g]

\* the step changes no registry and no game
NothingChanged ==
    /\ UNCHANGED <<active_games, active_waaduru_games, active_kanjipuzzle_games,
                   active_daily_waaduru_games>>
    /\ SameGames(games, games') /\ SameGames(waaduru_games, waaduru_games')
    /\ SameGames(kanjipuzzle_games, kanjipuzzle_games')
    /\ SameGames(daily_games, daily_games')

\* C26: when the lookup of a chain submission or of a puzzle guess fails, the handler
\* reports the word as not found, raises nothing, and changes no game and no registry
C26_FailedLookupIsNotFound ==
    [][\A t \in Tasks :
          LookupFails(t) =>
              /\ tasks'[t].pc = "react" /\ tasks'[t].emoji = "question"
              /\ NothingChanged]_vars

\* C26: a noun of the dictionary that fits the game's kana was answered with the
\* question mark, the game still registered with no word taken
C26_Witness ==
    \E t \in Tasks, c \in Channels :
        /\ tasks[t].pc = "react" /\ tasks[t].emoji = "question"
        /\ active_games[c] # NoRef
        /\ games[active_games[c]].chain_count = 0
        /\ LookupIn(JISHO, tasks[t].content, games[active_games[c]].current_kana).valid

\* the step of handler t out of a search for the computer's word whose request
\* failed, the dictionary having a word the computer could play
SearchFails(t) ==
    /\ after_find_bot_word(t, FALSE)
    /\ BotCandidates(JISHO, tasks[t].last_kana, games[tasks[t].game].used_words) # << >>

\* C27: a failed request to the lookup service, be it the lookup of the submission,
\* the validation of a guess or the search for the computer's word, takes no game
\* out of its registry and declares no winner
C27_FailureNeverEndsGame ==
    [][\A t \in Tasks :
          LookupFails(t) \/ SearchFails(t) =>
              /\ UNCHANGED <<active_games, active_waaduru_games,
                             active_kanjipuzzle_games, active_daily_waaduru_games>>
              /\ tasks'[t].emoji # "win"]_vars

(***************************************************************************)
(* A lookup that completes after its game was ended, under SpecChain.      *)
(***************************************************************************)
\* the step of handler t, whose game has left the registry while the handler waited
StaleHandlerSteps(t) ==
    /\ tasks[t].pc \in {"lookup_word", "accepted", "find_bot_word"}
    /\ active_games[tasks[t].channel_id] # tasks[t].game
    /\ tasks'[t] # tasks[t]

\* C28: the step of a handler whose game was ended while its lookup was pending
\* leaves the registry as it is and changes no registered game
C28_StaleResultDiscarded ==
    [][\A t \in Tasks :
          StaleHandlerSteps(t) =>
              /\ active_games' = active_games
              /\ \A c \in Channels :
                    active_games[c] # NoRef =>
                        games'[active_games[c]] = games[active_games[c]]]_vars

(***************************************************************************)
(* Properties of normalize_for_comparison, checked under SpecKana.         *)
(***************************************************************************)
\* C29: normalizing a normalized character changes nothing: from the second call on,
\* a caller gets back the value it passed, whatever character it started from
C29_NormalizeIdempotent ==
    \A t \in Tasks : tasks[t].index >= 2 => tasks[t].kana = tasks[t].last_kana

\* C29: a caller that started from the small katakana ャ has normalized twice and
\* has や both times
C29_Witness ==
    \E t \in Tasks :
        /\ tasks[t].content = << \h30E3 >> /\ tasks[t].index = 2
        /\ tasks[t].last_kana = << \h3084 >> /\ tasks[t].kana = << \h3084 >>

\* C30: for every entry (s, f) of the small_to_full table, a caller that has
\* normalized s once and a caller that has normalized f once have the same value
C30_SmallAndFullAgree ==
    \A t \in Tasks, u \in Tasks :
        /\ tasks[t].index = 1 /\ tasks[u].index = 1
        /\ tasks[t].content[1] \in DOMAIN small_to_full
        /\ tasks[u].content = << small_to_full[tasks[t].content[1]] >>
        => tasks[t].kana = tasks[u].kana

(***************************************************************************)
(* Properties of get_last_kana, checked under SpecText.                    *)
(***************************************************************************)
\* a character of the hiragana or katakana block other than the elongation mark
KanaButMark(code) == IsKana(code) /\ code # ChouOn

\* C31: get_last_kana never returns the elongation mark: it returns the last
\* character of the text that is hiragana or katakana and not the mark, and the empty
\* string when the text has none
C31_LastKanaSkipsMark ==
    \A t \in Tasks :
        tasks[t].pc = "returned" =>
            LET text == tasks[t].content
                at == { i \in 1 .. Len(text) : KanaButMark(text[i]) }
            IN  /\ tasks[t].last_kana # << ChouOn >>
                /\ at = {} => tasks[t].last_kana = << >>
                /\ at # {} =>
                       \E i \in at : /\ \A j \in at : j <= i
                                     /\ tasks[t].last_kana = << text[i] >>

\* C31: the caller with コーヒー has ヒ
C31_Witness ==
    \E t \in Tasks :
        /\ tasks[t].pc = "returned"
        /\ tasks[t].content = << \h30B3, ChouOn, \h30D2, ChouOn >>
        /\ tasks[t].last_kana = << \h30D2 >>

(***************************************************************************)
(* Properties of find_bot_word, checked under SpecBotWord.                 *)
(***************************************************************************)
\* the entry jp of a response qualifies as the computer's word for start_kana
Qualifies(jp, start_kana, used_words) ==
    /\ jp.noun /\ jp.reading # << >>
    /\ normalize_for_comparison(get_first_kana(jp.reading))
           = normalize_for_comparison(start_kana)
    /\ normalize_for_comparison(get_last_kana(jp.reading)) # << HiraN >>
    /\ jp.word \notin used_words /\ jp.reading \notin used_words

\* C32: the word the computer plays is one of the first ten entries of the response,
\* in its order, that are nouns for the start kana with a reading that does not end
\* in ん and that are unused by surface form and by reading when the word is chosen
C32_BotWordAmongFirstTen ==
    [][\A t \in Tasks :
          tasks[t].pc = "search" /\ tasks'[t].pc = "chosen" =>
              LET g == tasks[t].game
                  jps == Flatten(tasks[t].content)
                  Good(i) == Qualifies(jps[i], tasks[t].last_kana, games[g].used_words)
              IN  \E i \in 1 .. Len(jps) :
                     /\ Good(i)
                     /\ Cardinality({ j \in 1 .. i : Good(j) }) <= 10
                     /\ games'[g].last_reading = jps[i].reading
                     /\ games'[g].last_word
                            = (IF jps[i].word # << >> THEN jps[i].word ELSE jps[i].reading)
                     /\ normalize_for_comparison(games'[g].current_kana) # << HiraN >>
                     /\ {games'[g].last_word, games'[g].last_reading}
                            \cap games[g].used_words = {}]_vars

\* C32: with a response of more than ten qualifying entries the computer has played
\* the tenth of them, the katakana entry among its predecessors
C32_Witness ==
    \E t \in Tasks :
        /\ tasks[t].pc = "chosen"
        /\ Len(tasks[t].content) = MaxResponse
        /\ games[tasks[t].game].used_words = {games[tasks[t].game].last_reading}
        /\ games[tasks[t].game].last_reading = << \h3044, COMMON_KANA[14] >>

(***************************************************************************)
(* Two submissions in flight in one channel, checked under SpecChainRace.  *)
(***************************************************************************)
\* the step in which the game of handler t takes the handler's word
Accepts(t) == LookupReturns(t) /\ tasks'[t].pc = "accepted"

\* C33: when a game against the computer or among players takes a word, the first
\* kana of the word's reading is, normalized, the start kana the game asks for in
\* that moment
C33_AcceptedFitsStartKana ==
    [][\A t \in Tasks :
          LET g == tasks[t].game IN
          Accepts(t) /\ games[g].mode \in {VS_BOT, MULTIPLAYER} =>
              normalize_for_comparison(get_first_kana(games'[g].last_reading))
                  = normalize_for_comparison(games[g].current_kana)]_vars

\* C34: no handler ends with an error that nothing handles: the pop of the terminal
\* kana and the pop of the human's win always find the channel's key
C34_NoMissingKey == \A t \in Tasks : tasks[t].pc # "raised"

\* C35: a game against the computer takes a human's word only when no other word of
\* a human is waiting for the computer's answer in this game
C35_HumanComputerAlternate ==
    [][\A t \in Tasks :
          LET g == tasks[t].game IN
          Accepts(t) /\ games[g].mode = VS_BOT =>
              \A u \in Tasks \ {t} :
                  ~(tasks[u].game = g /\ tasks[u].pc \in {"accepted", "find_bot_word"})]_vars

(***************************************************************************)
(* Invariants of the chain game, checked under SpecChain.                  *)
(***************************************************************************)
RECURSIVE SumOver(_, _)
\* the sum of the points of the players of P in a table of scores
SumOver(scores, P) ==
    IF P = {} THEN 0
    ELSE LET p == CHOOSE q \in P : TRUE
         IN  scores[p] + SumOver(scores, P \ {p})

\* C36: the points of the players of a game of several players or of a word basket
\* add up to the game's chain count, and a game against the computer has no scores
C36_ScoresSumToChain ==
    \A c \in Channels :
        active_games[c] # NoRef =>
            LET game == games[active_games[c]]
            IN  IF game.mode = VS_BOT THEN game.scores = << >>
                ELSE SumOver(game.scores, DOMAIN game.scores) = game.chain_count

\* one character of the hiragana or katakana block that is not ん or ン
StartableKana(kana) ==
    /\ Len(kana) = 1 /\ IsKana(kana[1])
    /\ normalize_for_comparison(kana) # << HiraN >>

\* C37: the start kana of a registered chain game, in every mode, is one kana other
\* than ん, and so is the end kana of a word basket
C37_StartKanaNeverTerminal ==
    \A c \in Channels :
        active_games[c] # NoRef =>
            LET game == games[active_games[c]]
            IN  /\ StartableKana(game.current_kana)
                /\ game.mode = WORD_BASKET => StartableKana(game.end_kana)

\* C37: after 家 (いえ) and エア the game of several players asks for ア, the raw
\* last kana of the reading
C37_Witness ==
    \E c \in Channels :
        /\ active_games[c] # NoRef
        /\ games[active_games[c]].mode = MULTIPLAYER
        /\ games[active_games[c]].chain_count = 2
        /\ games[active_games[c]].current_kana = << \h30A2 >>

(***************************************************************************)
(* The hints of the compound puzzles, checked under SpecEngine.            *)
(***************************************************************************)
\* the discovered radicals of each position are radicals of the answer's kanji there
HintsOfAnswer(heap) ==
    \A g \in DOMAIN heap : \A p \in {0, 1} :
        heap[g].discovered_radicals[p] \subseteq krad_get(heap[g].answer_word[p + 1])

\* C38: in a shared puzzle and in a daily puzzle the radicals discovered for a
\* position are always radicals of the answer's kanji at that position
C38_HintsWithinAnswer == HintsOfAnswer(waaduru_games) /\ HintsOfAnswer(daily_games)

\* C38: a shared puzzle whose guesses have found some but not all of the radicals of
\* the first kanji of its answer
C38_Witness ==
    \E g \in DOMAIN waaduru_games :
        /\ waaduru_games[g].discovered_radicals[0] # {}
        /\ waaduru_games[g].discovered_radicals[0]
               # krad_get(waaduru_games[g].answer_word[1])
        /\ Len(waaduru_games[g].guesses) = MaxCalls

(***************************************************************************)
(* The routing of on_message (bot.py:1310-1342) with the four kinds of     *)
(* game side by side in one channel: one user, one handler at a time, the  *)
(* commands that start the games at any moment between two handlers, and   *)
(* messages that are two kanji and messages that are not.                  *)
(***************************************************************************)
RoutedMessages == {W_nihon, W_mokuhon, W_ai, R_ai}

NextRouting ==
    \/ \E c \in OneChannel : shiritori1(c)
    \/ \E t \in OneTask, c \in OneChannel : waaduru_random(t, c)
    \/ \E t \in OneTask, c \in OneChannel : kanjipuzzle(t, c)
    \/ \E t \in OneTask, c \in OneChannel, u \in OneUser : waaduru_daily(t, c, u)
    \/ \E t \in OneTask, c \in OneChannel, u \in OneUser, m \in RoutedMessages :
          Typing(c) /\ on_message(t, c, u, m)
    \/ \E t \in Tasks, ok \in BOOLEAN : after_lookup_word(t, ok)
    \/ \E t \in Tasks : after_accepted(t)
    \/ \E t \in Tasks, ok \in BOOLEAN : after_find_bot_word(t, ok)
    \/ PuzzleSteps
    \/ KanjiPuzzleSteps

SpecRouting == Init /\ [][NextRouting]_vars

\* the message is two characters and both are kanji of KRAD_MAP
TwoKanjiMessage(m) ==
    Len(m) = 2 /\ m[1] \in DOMAIN KRAD_MAP /\ m[2] \in DOMAIN KRAD_MAP

\* the author has a daily puzzle in the channel that is neither solved nor used up
OpenDailyOf(c, u) ==
    /\ active_daily_waaduru_games[u] # NoRef
    /\ daily_games[active_daily_waaduru_games[u]].channel_id = c
    /\ ~daily_games[active_daily_waaduru_games[u]].solved
    /\ Len(daily_games[active_daily_waaduru_games[u]].guesses) < 5

\* the game the fixed priority gives the message to
Taker(c, u, m) ==
    IF TwoKanjiMessage(m) /\ OpenDailyOf(c, u) THEN "daily"
    ELSE IF TwoKanjiMessage(m) /\ active_waaduru_games[c] # NoRef THEN "waaduru"
    ELSE IF TwoKanjiMessage(m) /\ active_kanjipuzzle_games[c] # NoRef THEN "kanjipuzzle"
    ELSE "chain"

\* what a handler of each kind may change besides its own position
OnlyOwnGame(kind) ==
    CASE kind = "daily" -> UNCHANGED <<chainVars, waaduruVars, kanjipuzzleVars>>
      [] kind = "waaduru" -> UNCHANGED <<chainVars, dailyVars, kanjipuzzleVars>>
      [] kind = "kanjipuzzle" -> UNCHANGED <<chainVars, waaduruVars, dailyVars>>
      [] OTHER -> UNCHANGED puzzleVars

\* C39: a message is handled for at most one game, the first in the order daily puzzle
\* of the author (open, in this channel), shared puzzle of the channel, kanji puzzle of
\* the channel, chain game, the first three for two-kanji messages only; and the handler
\* of a message changes no game but the one the message went to, so a message taken as a
\* puzzle guess leaves the chain game of the channel as it was
C39_OneGameByPriority ==
    [][ /\ \A t \in OneTask, c \in OneChannel, u \in OneUser, m \in RoutedMessages :
              on_message(t, c, u, m) =>
                  /\ tasks'[t] = tasks[t] \/ tasks'[t].kind = Taker(c, u, m)
                  /\ UNCHANGED <<chainVars, puzzleVars>>
        /\ \A t \in Tasks :
              tasks[t].pc # "idle" /\ tasks'[t] # tasks[t] => OnlyOwnGame(tasks[t].kind)
      ]_vars

\* the four games are registered in the channel and the two-kanji message of the author
\* has been taken as a guess of the daily puzzle
C39_Witness ==
    /\ active_games["c1"] # NoRef
    /\ active_waaduru_games["c1"] # NoRef
    /\ active_kanjipuzzle_games["c1"] # NoRef
    /\ OpenDailyOf("c1", "u1")
    /\ tasks[1].kind = "daily" /\ tasks[1].pc = "validate"
    /\ TwoKanjiMessage(tasks[1].content)

\* the daily puzzle registered for the user is solved or has used its five guesses
DailyOver(u) ==
    /\ active_daily_waaduru_games[u] # NoRef
    /\ is_game_over(daily_games[active_daily_waaduru_games[u]])

\* the midnight reset: the daily registry and the cached word of the day are cleared
DailyCleared ==
    /\ active_daily_waaduru_games' = [u \in Users |-> NoRef]
    /\ daily_waaduru_word' = NoWordOfTheDay

\* C40: once the daily puzzle of a user is solved or has used its five guesses, every
\* step either is the midnight reset, which clears the daily registry and the cached
\* word, or leaves the user with the same puzzle in the state it finished in: no new
\* daily puzzle is registered for the user and no further guess is recorded
C40_FinishedDailyStays ==
    [][\A u \in Users :
          DailyOver(u) =>
              \/ DailyCleared
              \/ /\ active_daily_waaduru_games'[u] = active_daily_waaduru_games[u]
                 /\ daily_games'[active_daily_waaduru_games[u]]
                        = daily_games[active_daily_waaduru_games[u]]
      ]_vars

====
